---- MODULE Spec2Model ----
(***************************************************************************)
(* Authentication & verification core of InsForge:                         *)
(*   - AuthOTPService (backend/src/core/auth/auth.otp.ts)                  *)
(*   - AuthConfigService (backend/src/core/auth/auth.config.ts)            *)
(*   - the OAuth routes (unnamed/part_008 and its older form, part_007)    *)
(* auth.otp.ts and auth.config.ts each hold two definitions of their       *)
(* class, and the OAuth router exists in two forms.  Which definition a    *)
(* deployment runs is fixed at start-up: otpDef, cfgDef and oauthDef are   *)
(* chosen in Init and never change.                                        *)
(***************************************************************************)
EXTENDS Integers, Sequences, FiniteSets, TLC

VARIABLES
    now,          \* wall clock (Date.now() / NOW()), in minutes
    otpDef,       \* 1: auth.otp.ts lines 39-244, 2: auth.otp.ts lines 284-466
    email_otps,   \* committed rows of table _email_otps
    rowLock,      \* row-level lock of a (email, purpose) row: the holding call, or 0
    verifyCalls,  \* verifyEmailOTP invocations in flight, by call slot
    okReturned,   \* history: successes returned per pair since its last issuance
    okCommitted,  \* history: a successful verification of the pair has committed
    wrongDone,    \* history: completed hash-mismatch calls per pair since issuance
    cfgDef,       \* 1: auth.config.ts lines 8-260, 2: auth.config.ts lines 269-470
    auth_configs, \* committed rows of table _auth_configs
    cfgLock,      \* call whose transaction holds the row lock of _auth_configs, or 0
    cfgCalls,     \* getEmailConfig / updateEmailConfig invocations, by call slot
    nextId,       \* the id the next inserted _auth_configs row gets
    cfgSucceeded, \* history: a getEmailConfig or updateEmailConfig call has succeeded
    oauthDef,     \* 1: the router of unnamed/part_008, 2: that of unnamed/part_007
    oauthEnv,     \* process.env: JWT_SECRET configured, OAUTH_ALLOWED_ORIGINS
    tickets,      \* state tickets handed out by GET /:provider
    request,      \* history: the request handled last
    response,     \* what the handler of that request did and answered
    cloudEnv,     \* process.env: the variables isCloudEnvironment reads
    oauth_configs,\* OAuth provider configurations kept by OAuthConfigService
    audit_logs,   \* actions written by auditService.log, oldest first
    broadcasts,   \* number of DATA_UPDATE broadcasts sent to role:project_admin
    adminRequest, \* history: the /configs request handled last
    adminResponse,\* what the handler of that request answered
    clock,        \* Date.now() in milliseconds, as the rate limiters read it
    advances,     \* number of times the model has moved the clock
    nextSweep,    \* the time the cooldown sweep (setInterval) is due next
    emailCooldowns,\* the Map email -> last request timestamp
    admittedAt,   \* history: per email text, the time of the last admitted
                  \* perEmailCooldown request and whether a sweep met its entry
    cooldownCall, \* history: the perEmailCooldown call made last and its outcome
    hits,         \* per source IP, the hit count of sendEmailOTPRateLimiter
    resetTime,    \* per source IP, the end of its current window (0: no window yet)
    inflight,     \* issuance requests that arrived and whose response has not finished
    counted,      \* history: per source IP, requests of the current window that succeeded
    throttleCall, \* history: the issuance request that arrived last
    verifyHits,   \* per source IP, the hit count of verifyOTPRateLimiter
    verifyResetTime, \* per source IP, the end of its current verification window
    verifyInflight,  \* verification requests whose response has not finished
    verifyCall,   \* history: the verification request that arrived last
    pwdConfig,    \* the policy handed to getPasswordRequirementsMessage
    pwdMessage,   \* the message it returned, as the list of its pieces
    reissued,     \* history: per pair, what the last issuance replaced
    ticketUse,    \* history: the state tickets that completed a flow
    link_otps,    \* rows of _email_otps that hold a long (link) token
    linkCalls,    \* long-token verifications in flight, by call slot
    linkOk        \* history: successes per long token since the last issuance

otpVars == <<otpDef, email_otps, rowLock, verifyCalls,
             okReturned, okCommitted, wrongDone>>

cfgVars == <<cfgDef, auth_configs, cfgLock, cfgCalls, nextId, cfgSucceeded>>

oauthVars == <<oauthDef, oauthEnv, tickets, request, response, ticketUse>>

adminVars == <<cloudEnv, oauth_configs, audit_logs, broadcasts,
               adminRequest, adminResponse>>

limiterVars == <<clock, advances, nextSweep, emailCooldowns, admittedAt, cooldownCall>>

throttleVars == <<hits, resetTime, inflight, counted, throttleCall>>

verifyLimiterVars == <<verifyHits, verifyResetTime, verifyInflight, verifyCall>>

pwdVars == <<pwdConfig, pwdMessage>>

linkVars == <<link_otps, linkCalls, linkOk>>

vars == <<now, otpVars, cfgVars, oauthVars, adminVars, limiterVars, throttleVars,
          verifyLimiterVars, pwdVars, reissued, linkVars>>

----------------------------------------------------------------------------
(* Bounds of the model *)

NCalls == 2
MaxCode == 1
MaxSalt == 0
TickStep == 40
MaxTicks == 2
NConfigCalls == 2
MaxConfigId == 3
MinLengths == {3, 4}
MaxTickets == 1
MaxAuditLogs == 2
MaxAdvances == 2
MaxInFlight == 2
MaxVerifyHits == 12

(* Program constants *)

OTP_EXPIRY_MINUTES == 60
MAX_ATTEMPTS == 5
STATE_EXPIRY_MINUTES == 60
fiveMinutes == 5 * 60 * 1000
DefaultCooldownMs == 60000
windowMs == 15 * 60 * 1000
max == 5
verifyMax == 10

NULL == -1

Calls == 1..NCalls
Codes == 0..MaxCode
Salts == 0..MaxSalt
(* one (email, purpose) row is followed: rows of different pairs share no   *)
(* statement, lock or counter                                              *)
Emails == {"a@x.io"}
EmailOTPPurpose == {"VERIFY_EMAIL"}
Pairs == Emails \X EmailOTPPurpose

----------------------------------------------------------------------------
(* bcrypt: a salted digest; compare re-hashes the candidate under the      *)
(* salt stored in the hash.                                                *)

BcryptHash(code, salt) ==
    [salt |-> salt, digest |-> (code + 1) * (MaxSalt + 2) + salt]

BcryptCompare(code, hash) == BcryptHash(code, hash.salt) = hash

NoHash == [salt |-> NULL, digest |-> NULL]

NoRow == [email |-> "", purpose |-> "", code_hash |-> NoHash,
          expires_at |-> 0, consumed_at |-> NULL, attempts_count |-> 0]

(* AppError(message, statusCode, code) and the values a call settles with *)
AppError(message, status, code) ==
    [kind |-> "error", message |-> message, status |-> status, code |-> code]

NoOutcome == [kind |-> "none", message |-> "", status |-> 0, code |-> ""]

VerifyOTPResult == [kind |-> "success", message |-> "", status |-> 200, code |-> ""]

ThrowInvalidRecord ==
    AppError("Invalid or expired verification code", 400, "INVALID_INPUT")

(* variant: a mismatch reported under a message of its own *)
ThrowMismatchDistinct ==
    AppError("Incorrect verification code", 400, "INVALID_INPUT")

ThrowMismatch ==
    AppError("Invalid or expired verification code", 400, "INVALID_INPUT")

ThrowLostConsume ==
    AppError("Invalid or expired verification code", 400, "INVALID_INPUT")

----------------------------------------------------------------------------
(* Table _email_otps *)

Rows(email, purpose) ==
    {r \in email_otps : r.email = email /\ r.purpose = purpose}

FirstRow(rows) == CHOOSE r \in rows : TRUE

(* variant: an INSERT without ON CONFLICT into a table without the unique  *)
(* constraint                                                              *)
PlainInsert(table, email, purpose, codeHash, expiresAt) ==
    table \cup {[email |-> email, purpose |-> purpose, code_hash |-> codeHash,
                 expires_at |-> expiresAt, consumed_at |-> NULL,
                 attempts_count |-> 0]}

(* variant: an upsert that sets code_hash and expires_at only *)
UpsertKeepingState(table, email, purpose, codeHash, expiresAt) ==
    {r \in table : ~(r.email = email /\ r.purpose = purpose)}
        \cup {[email |-> email, purpose |-> purpose, code_hash |-> codeHash,
               expires_at |-> expiresAt,
               consumed_at |-> IF \E r \in table : r.email = email /\ r.purpose = purpose
                               THEN (CHOOSE r \in table :
                                        r.email = email /\ r.purpose = purpose).consumed_at
                               ELSE NULL,
               attempts_count |-> IF \E r \in table : r.email = email /\ r.purpose = purpose
                                  THEN (CHOOSE r \in table :
                                           r.email = email /\ r.purpose = purpose).attempts_count
                                  ELSE 0]}

(* INSERT ... ON CONFLICT (email, purpose) DO UPDATE SET code_hash,        *)
(* expires_at, consumed_at = NULL, attempts_count = 0                      *)
Upsert(table, email, purpose, codeHash, expiresAt) ==
    {r \in table : ~(r.email = email /\ r.purpose = purpose)}
        \cup {[email |-> email, purpose |-> purpose, code_hash |-> codeHash,
               expires_at |-> expiresAt, consumed_at |-> NULL,
               attempts_count |-> 0]}

(* UPDATE ... WHERE id = $1: the row of the pair is replaced by its new version *)
WriteRow(table, row) ==
    {r \in table : ~(r.email = row.email /\ r.purpose = row.purpose)} \cup {row}

(* variant: the check without the consumed_at condition *)
RecordInvalidIgnoringConsumed(rows, t) ==
    \/ rows = {}
    \/ (CHOOSE r \in rows : TRUE).attempts_count >= MAX_ATTEMPTS
    \/ t > (CHOOSE r \in rows : TRUE).expires_at

(* variant: the check without the comparison with the clock *)
RecordInvalidIgnoringExpiry(rows, t) ==
    \/ rows = {}
    \/ (CHOOSE r \in rows : TRUE).attempts_count >= MAX_ATTEMPTS
    \/ (CHOOSE r \in rows : TRUE).consumed_at # NULL

(* the check of verifyEmailOTP on the fetched rows *)
RecordInvalid(rows, t) ==
    \/ rows = {}
    \/ FirstRow(rows).attempts_count >= MAX_ATTEMPTS
    \/ t > FirstRow(rows).expires_at
    \/ FirstRow(rows).consumed_at # NULL

InvalidCause(rows, t) ==
    IF rows = {} THEN "missing"
    ELSE IF FirstRow(rows).attempts_count >= MAX_ATTEMPTS THEN "attempts"
    ELSE IF t > FirstRow(rows).expires_at THEN "expired"
    ELSE "consumed"

----------------------------------------------------------------------------
(* Call slots.  A slot holds one verifyEmailOTP invocation: pc is the      *)
(* statement it will execute next, "done" once it has settled (its outcome *)
(* stays readable until the slot takes the next invocation).  History      *)
(* fields: cause (the branch that rejected the call), correct (the         *)
(* candidate matched the stored hash when the call read the table),        *)
(* afterOK / afterLockout (the call read the table after a verification of *)
(* the pair had committed / after MAX_ATTEMPTS mismatch calls had          *)
(* completed, with no issuance since).                                     *)

IdleVerify ==
    [pc |-> "idle", email |-> "", purpose |-> "", ext |-> FALSE,
     isValid |-> FALSE, pending |-> NoRow, outcome |-> NoOutcome,
     cause |-> "none", correct |-> FALSE, afterOK |-> FALSE,
     afterLockout |-> FALSE]

PairOf(call) == <<call.email, call.purpose>>

(* the row version a statement of call c's transaction works on *)
CurrentRow(c) ==
    IF verifyCalls[c].pending # NoRow
    THEN verifyCalls[c].pending
    ELSE FirstRow(Rows(verifyCalls[c].email, verifyCalls[c].purpose))

(* COMMIT of a transaction whose uncommitted row version is row *)
Committed(table, row) == IF row # NoRow THEN WriteRow(table, row) ELSE table

(* the row locks once the transaction of call c has ended *)
Released(c) ==
    [p \in Pairs |-> IF rowLock[p] = c THEN 0 ELSE rowLock[p]]

(* history counters stop counting at MAX_ATTEMPTS *)
Bump(n) == IF n < MAX_ATTEMPTS THEN n + 1 ELSE n

----------------------------------------------------------------------------
(* createEmailOTP: generateNumericCode, bcrypt.hash, expiresAt, and the     *)
(* upsert statement, which waits for the row lock of the pair               *)

IssueCode(email, purpose, code, salt) ==
    LET p == <<email, purpose>>
    IN  /\ rowLock[p] = 0
        /\ email_otps' = Upsert(email_otps, email, purpose,
                                BcryptHash(code, salt), now + OTP_EXPIRY_MINUTES)
        /\ okReturned' = [okReturned EXCEPT ![p] = 0]
        /\ okCommitted' = [okCommitted EXCEPT ![p] = FALSE]
        /\ wrongDone' = [wrongDone EXCEPT ![p] = 0]
        /\ verifyCalls' = [c \in Calls |->
              IF verifyCalls[c].pc \in {"increment", "consume", "caller"}
                 /\ PairOf(verifyCalls[c]) = p
              THEN [verifyCalls[c] EXCEPT !.afterOK = FALSE, !.afterLockout = FALSE]
              ELSE verifyCalls[c]]
        /\ UNCHANGED <<linkVars, pwdVars, verifyLimiterVars, adminVars, limiterVars, throttleVars, now, otpDef, rowLock, cfgVars, oauthVars>>

CreateEmailOTP(email, purpose, code, salt) ==
    IssueCode(email, purpose, code, salt) /\ UNCHANGED reissued

(* what an issuance finds in the table for the pair *)
NotIssued == [over |-> "none", prev |-> NoHash, at |-> 0]

ReplacedState(rows, t) ==
    IF rows = {} THEN "none"
    ELSE IF FirstRow(rows).consumed_at # NULL THEN "consumed"
    ELSE IF FirstRow(rows).attempts_count >= MAX_ATTEMPTS THEN "lockedOut"
    ELSE IF t > FirstRow(rows).expires_at THEN "expired"
    ELSE "active"

(* createEmailOTP called while no verification of the pair is under way,    *)
(* with the history of the row it replaces                                  *)
ReissueEmailOTP(email, purpose, code, salt) ==
    LET rows == Rows(email, purpose)
    IN  /\ \A c \in Calls : verifyCalls[c].pc \in {"idle", "done"}
        /\ IssueCode(email, purpose, code, salt)
        /\ reissued' = [reissued EXCEPT ![<<email, purpose>>] =
              [over |-> ReplacedState(rows, now),
               prev |-> IF rows = {} THEN NoHash ELSE FirstRow(rows).code_hash,
               at |-> now]]

----------------------------------------------------------------------------
(* verifyEmailOTP *)

(* SELECT ... WHERE email = $1 AND purpose = $2 is FOR UPDATE in definition 1 *)
ForUpdate == otpDef = 1

(* variant: a catch block that leaves the transaction open *)
CatchWithoutRollback(transactionActive) == FALSE

(* definition 1 tracks transactionActive and rolls back in catch only while *)
(* it is set; definition 2 rolls back in catch whenever it manages the      *)
(* transaction                                                              *)
CatchRollsBack(transactionActive) ==
    IF otpDef = 1 THEN transactionActive ELSE TRUE

(* BEGIN (own transaction only), the SELECT, the validity check and         *)
(* bcrypt.compare.  A call that manages its transaction and finds the       *)
(* record invalid throws, rolls back in catch and releases its client in    *)
(* the same step; with an external client the error goes to the caller.     *)
VerifySelect(c, email, purpose, code, ext) ==
    LET p == <<email, purpose>>
        rows == Rows(email, purpose)
        locks == ForUpdate /\ rows # {}
        invalid == RecordInvalid(rows, now)
        held == locks /\ (ext \/ ~invalid \/ ~CatchRollsBack(TRUE))
        matches == rows # {} /\ BcryptCompare(code, FirstRow(rows).code_hash)
        started == [IdleVerify EXCEPT !.email = email, !.purpose = purpose,
                        !.ext = ext, !.correct = matches,
                        !.afterOK = okCommitted[p],
                        !.afterLockout = (wrongDone[p] >= MAX_ATTEMPTS)]
    IN  /\ verifyCalls[c].pc \in {"idle", "done"}
        /\ locks => rowLock[p] = 0
        /\ rowLock' = IF held THEN [rowLock EXCEPT ![p] = c] ELSE rowLock
        /\ verifyCalls' = [verifyCalls EXCEPT ![c] =
              IF invalid
              THEN [started EXCEPT !.outcome = ThrowInvalidRecord,
                        !.cause = InvalidCause(rows, now),
                        !.pc = IF ext THEN "caller" ELSE "done"]
              ELSE [started EXCEPT
                        !.isValid = BcryptCompare(code, FirstRow(rows).code_hash),
                        !.pc = IF BcryptCompare(code, FirstRow(rows).code_hash)
                               THEN "consume" ELSE "increment"]]
        /\ UNCHANGED <<linkVars, reissued, pwdVars, verifyLimiterVars, adminVars, limiterVars, throttleVars, now, otpDef, email_otps, okReturned, okCommitted, wrongDone, cfgVars, oauthVars>>

(* definition 1 with an external client issues the increment on a second    *)
(* connection (tmp), which is not the session holding the FOR UPDATE lock   *)
UsesTmpConnection(ext) == otpDef = 1 /\ ext

(* variant: an update that counts a wrong guess twice *)
AttemptCountedTwice(row) == [row EXCEPT !.attempts_count = row.attempts_count + 2]

(* SET attempts_count = attempts_count + 1 *)
AttemptCounted(row) == [row EXCEPT !.attempts_count = row.attempts_count + 1]

(* UPDATE _email_otps SET attempts_count = attempts_count + 1 WHERE id = $1 *)
(* own transaction: followed by COMMIT, throw, catch and finally.           *)
VerifyIncrement(c) ==
    LET call == verifyCalls[c]
        p == PairOf(call)
        tmp == UsesTmpConnection(call.ext)
        cur == CurrentRow(c)
        next == AttemptCounted(cur)
        autocommit == tmp \/ ~call.ext
    IN  /\ call.pc = "increment"
        /\ IF tmp THEN rowLock[p] = 0 ELSE rowLock[p] \in {0, c}
        /\ email_otps' = IF autocommit THEN WriteRow(email_otps, next) ELSE email_otps
        /\ rowLock' = IF tmp THEN rowLock
                      ELSE IF call.ext THEN [rowLock EXCEPT ![p] = c]
                      ELSE Released(c)
        /\ verifyCalls' = [verifyCalls EXCEPT ![c] =
              [call EXCEPT !.pending = IF autocommit THEN NoRow ELSE next,
                           !.outcome = ThrowMismatch, !.cause = "mismatch",
                           !.pc = IF call.ext THEN "caller" ELSE "done"]]
        /\ wrongDone' = IF call.ext THEN wrongDone
                        ELSE [wrongDone EXCEPT ![p] = Bump(@)]
        /\ UNCHANGED <<linkVars, reissued, pwdVars, verifyLimiterVars, adminVars, limiterVars, throttleVars, now, otpDef, okReturned, okCommitted, cfgVars, oauthVars>>

(* UPDATE _email_otps SET consumed_at = NOW() WHERE id = $1                 *)
(* [AND consumed_at IS NULL]: the number of rows it updates                 *)
ConsumeRowCount(cur) ==
    IF otpDef = 1 THEN (IF cur.consumed_at = NULL THEN 1 ELSE 0) ELSE 1

(* only definition 1 checks consume.rowCount *)
ChecksRowCount == otpDef = 1

(* The consume statement; own transaction: followed by COMMIT (or, when the *)
(* update was lost, ROLLBACK and throw), the return and finally.            *)
VerifyConsume(c) ==
    LET call == verifyCalls[c]
        p == PairOf(call)
        cur == CurrentRow(c)
        rowCount == ConsumeRowCount(cur)
        lost == ChecksRowCount /\ rowCount # 1
        written == IF rowCount = 1 THEN [cur EXCEPT !.consumed_at = now]
                   ELSE call.pending
    IN  /\ call.pc = "consume"
        /\ rowLock[p] \in {0, c}
        /\ email_otps' = IF call.ext \/ lost THEN email_otps
                         ELSE Committed(email_otps, written)
        /\ rowLock' = IF call.ext
                      THEN (IF rowCount = 1 THEN [rowLock EXCEPT ![p] = c] ELSE rowLock)
                      ELSE Released(c)
        /\ verifyCalls' = [verifyCalls EXCEPT ![c] =
              [call EXCEPT
                 !.pending = IF call.ext THEN written ELSE NoRow,
                 !.outcome = IF lost THEN ThrowLostConsume ELSE VerifyOTPResult,
                 !.cause = IF lost THEN "lost" ELSE "none",
                 !.pc = IF call.ext THEN "caller" ELSE "done"]]
        /\ okReturned' = IF lost THEN okReturned ELSE [okReturned EXCEPT ![p] = Bump(@)]
        /\ okCommitted' = IF lost \/ call.ext THEN okCommitted
                          ELSE [okCommitted EXCEPT ![p] = TRUE]
        /\ UNCHANGED <<linkVars, reissued, pwdVars, verifyLimiterVars, adminVars, limiterVars, throttleVars, now, otpDef, wrongDone, cfgVars, oauthVars>>

(* The owner of an external client ends its own transaction after the call: *)
(* COMMIT when verifyEmailOTP returned, ROLLBACK when it threw.             *)
CallerEnd(c) ==
    LET call == verifyCalls[c]
        p == PairOf(call)
        ok == call.outcome = VerifyOTPResult
    IN  /\ call.pc = "caller"
        /\ email_otps' = IF ok THEN Committed(email_otps, call.pending) ELSE email_otps
        /\ rowLock' = Released(c)
        /\ verifyCalls' = [verifyCalls EXCEPT ![c] =
              [call EXCEPT !.pending = NoRow, !.pc = "done"]]
        /\ okCommitted' = IF ok THEN [okCommitted EXCEPT ![p] = TRUE] ELSE okCommitted
        /\ wrongDone' = IF call.cause = "mismatch"
                        THEN [wrongDone EXCEPT ![p] = Bump(@)] ELSE wrongDone
        /\ UNCHANGED <<linkVars, reissued, pwdVars, verifyLimiterVars, adminVars, limiterVars, throttleVars, now, otpDef, okReturned, cfgVars, oauthVars>>

Tick ==
    /\ now + TickStep <= MaxTicks * TickStep
    /\ now' = now + TickStep
    /\ UNCHANGED <<linkVars, reissued, pwdVars, verifyLimiterVars, adminVars, limiterVars, throttleVars, otpVars, cfgVars, oauthVars>>

----------------------------------------------------------------------------
(* AuthConfigService and table _auth_configs *)

ConfigCalls == 1..NConfigCalls

ConfigFields == {"requireEmailVerification", "passwordMinLength"}

NoConfig == [id |-> 0, requireEmailVerification |-> FALSE, passwordMinLength |-> 0]

(* the values createDefaultConfig inserts: [false, 6, false, false, ...] *)
DefaultConfig(id) ==
    [id |-> id, requireEmailVerification |-> FALSE, passwordMinLength |-> 6]

(* UpdateEmailAuthConfigRequest: fields is the set of keys that are not     *)
(* undefined in the input                                                   *)
NoInput == [fields |-> {}, requireEmailVerification |-> FALSE, passwordMinLength |-> 0]

UpdateInputs ==
    {[fields |-> f \cup (IF n = 0 THEN {} ELSE {"passwordMinLength"}),
      requireEmailVerification |-> ("requireEmailVerification" \in f),
      passwordMinLength |-> n] :
        f \in SUBSET {"requireEmailVerification"}, n \in {0} \cup MinLengths}

(* an UPDATE that sets every column from the input *)
ApplyAllFields(row, input) ==
    [row EXCEPT !.requireEmailVerification = input.requireEmailVerification,
                !.passwordMinLength = input.passwordMinLength]

(* SET <supplied fields> of the UPDATE statement, applied to one row *)
ApplyUpdates(row, input) ==
    [row EXCEPT
       !.requireEmailVerification =
            IF "requireEmailVerification" \in input.fields
            THEN input.requireEmailVerification ELSE @,
       !.passwordMinLength =
            IF "passwordMinLength" \in input.fields
            THEN input.passwordMinLength ELSE @]

(* CHECK (password_min_length >= 4 AND password_min_length <= 128) *)
CheckPasswordMinLength(n) == n >= 4 /\ n <= 128

(* variant: a table without idx_auth_configs_singleton *)
NoSingletonIndex(table) == FALSE

(* CREATE UNIQUE INDEX idx_auth_configs_singleton ON _auth_configs ((1)):   *)
(* a row cannot be added to a table that holds one                          *)
SingletonConflict(table) == table # {}

(* SELECT ... FROM _auth_configs LIMIT 1 *)
SelectLimit1(table) == IF table = {} THEN NoConfig ELSE CHOOSE r \in table : TRUE

GetConfigError ==
    AppError("Failed to get email authentication configuration", 500, "INTERNAL_ERROR")

CreateConfigError ==
    AppError("Failed to create default authentication configuration", 500, "INTERNAL_ERROR")

UpdateConfigError ==
    AppError("Failed to update email authentication configuration", 500, "INTERNAL_ERROR")

ConfigReturned == [kind |-> "success", message |-> "", status |-> 200, code |-> ""]

(* A call slot: op is the public method invoked, pc the statement it        *)
(* executes next, inTx whether its connection is inside BEGIN .. COMMIT,    *)
(* pending the row version its transaction has written and not committed,   *)
(* inserted whether that version is a row the transaction inserted, result  *)
(* the row it returns.  sawEmpty is history: the first SELECT of a          *)
(* getEmailConfig call found the table empty.                               *)
IdleConfigCall ==
    [op |-> "none", pc |-> "idle", input |-> NoInput, inTx |-> FALSE,
     pending |-> NoConfig, inserted |-> FALSE, result |-> NoConfig,
     outcome |-> NoOutcome, sawEmpty |-> FALSE]

(* rows another transaction has inserted and not committed *)
UncommittedInserts(c) ==
    {cfgCalls[d].pending : d \in {x \in ConfigCalls : x # c /\ cfgCalls[x].inserted}}

(* the rows a statement of call c sees: its own uncommitted version of a    *)
(* row hides the committed one                                              *)
Visible(c) ==
    IF cfgCalls[c].pending # NoConfig THEN {cfgCalls[c].pending} ELSE auth_configs

(* the error getEmailConfig surfaces: its catch wraps every error; inside   *)
(* updateEmailConfig the catch passes an AppError through                   *)
GetFailure(err) == GetConfigError

UpdateFailure(err) == IF err.kind = "error" THEN err ELSE UpdateConfigError

(* getEmailConfig: the SELECT and, when it returns a row, the return.       *)
(* updateEmailConfig without updates calls it after its COMMIT (pc "get").  *)
GetEmailConfig(c) ==
    LET call == cfgCalls[c]
        nested == call.pc = "get"
        row == SelectLimit1(auth_configs)
        begun == IF nested THEN call
                 ELSE [IdleConfigCall EXCEPT !.op = "get",
                                             !.sawEmpty = (auth_configs = {})]
    IN  /\ call.pc \in {"idle", "done", "get"}
        /\ cfgCalls' = [cfgCalls EXCEPT ![c] =
              IF row = NoConfig
              THEN [begun EXCEPT !.pc = "create"]
              ELSE [begun EXCEPT !.pc = "done", !.result = row,
                                 !.outcome = ConfigReturned]]
        /\ cfgSucceeded' = (cfgSucceeded \/ row # NoConfig)
        /\ UNCHANGED <<linkVars, reissued, pwdVars, verifyLimiterVars, adminVars, limiterVars, throttleVars, now, otpVars, oauthVars, cfgDef, auth_configs, cfgLock, nextId>>

(* createDefaultConfig: the INSERT, which waits for a transaction holding   *)
(* an uncommitted row.  Definition 1 inserts ON CONFLICT DO NOTHING, on the *)
(* client of updateEmailConfig when called from it; definition 2 inserts    *)
(* on a connection of its own and fails on a conflict.                      *)
CreateDefaultConfig(c) ==
    LET call == cfgCalls[c]
        conflict == SingletonConflict(auth_configs)
        row == DefaultConfig(nextId)
        externalClient == cfgDef = 1 /\ call.inTx
        returned == [call EXCEPT !.pc = IF call.inTx THEN "write" ELSE "done",
                                 !.result = IF call.inTx THEN NoConfig ELSE row,
                                 !.outcome = IF call.inTx THEN NoOutcome
                                             ELSE ConfigReturned]
        thrown == [call EXCEPT !.pc = "done", !.inTx = FALSE,
                               !.outcome = IF call.inTx
                                           THEN UpdateFailure(CreateConfigError)
                                           ELSE GetFailure(CreateConfigError)]
    IN  /\ call.pc = "create"
        /\ UncommittedInserts(c) = {}
        /\ ~conflict => nextId <= MaxConfigId
        /\ cfgCalls' = [cfgCalls EXCEPT ![c] =
              IF conflict
              THEN (IF cfgDef = 1 THEN [call EXCEPT !.pc = "reread"] ELSE thrown)
              ELSE IF externalClient
                   THEN [returned EXCEPT !.pending = row, !.inserted = TRUE]
                   ELSE returned]
        /\ auth_configs' = IF conflict \/ externalClient THEN auth_configs
                           ELSE auth_configs \cup {row}
        /\ cfgLock' = IF ~conflict /\ externalClient THEN c ELSE cfgLock
        /\ nextId' = IF conflict THEN nextId ELSE nextId + 1
        /\ cfgSucceeded' = (cfgSucceeded \/ (~conflict /\ ~call.inTx))
        /\ UNCHANGED <<linkVars, reissued, pwdVars, verifyLimiterVars, adminVars, limiterVars, throttleVars, now, otpVars, oauthVars, cfgDef>>

(* createDefaultConfig of definition 1 after a skipped insert: the second   *)
(* SELECT ... LIMIT 1 and return existingResult.rows[0]                     *)
RereadConfig(c) ==
    LET call == cfgCalls[c]
        row == SelectLimit1(Visible(c))
    IN  /\ call.pc = "reread"
        /\ cfgCalls' = [cfgCalls EXCEPT ![c] =
              IF call.inTx THEN [call EXCEPT !.pc = "write"]
              ELSE [call EXCEPT !.pc = "done", !.result = row,
                                !.outcome = ConfigReturned]]
        /\ cfgSucceeded' = (cfgSucceeded \/ ~call.inTx)
        /\ UNCHANGED <<linkVars, reissued, pwdVars, verifyLimiterVars, adminVars, limiterVars, throttleVars, now, otpVars, oauthVars, cfgDef, auth_configs, cfgLock, nextId>>

(* SELECT id FROM _auth_configs LIMIT 1 is FOR UPDATE in definition 1 *)
ConfigForUpdate == cfgDef = 1

(* updateEmailConfig: BEGIN and the SELECT id ... LIMIT 1 [FOR UPDATE] *)
UpdateEmailConfig(c, input) ==
    LET exists == auth_configs # {}
        locks == ConfigForUpdate /\ exists
    IN  /\ cfgCalls[c].pc \in {"idle", "done"}
        /\ locks => cfgLock = 0
        /\ cfgLock' = IF locks THEN c ELSE cfgLock
        /\ cfgCalls' = [cfgCalls EXCEPT ![c] =
              [IdleConfigCall EXCEPT !.op = "update", !.input = input,
                                     !.inTx = TRUE,
                                     !.pc = IF exists THEN "write" ELSE "create"]]
        /\ UNCHANGED <<linkVars, reissued, pwdVars, verifyLimiterVars, adminVars, limiterVars, throttleVars, now, otpVars, oauthVars, cfgDef, auth_configs, nextId, cfgSucceeded>>

(* COMMIT of call c's transaction with the row versions rows written *)
CommitConfig(table, rows) ==
    {r \in table : \A w \in rows : w.id # r.id} \cup rows

(* updateEmailConfig after the row is known to exist: without updates,      *)
(* COMMIT and the call of getEmailConfig; otherwise the UPDATE (all rows,   *)
(* waiting for the row lock), then COMMIT and return result.rows[0], or,    *)
(* when the CHECK constraint rejects the UPDATE, ROLLBACK and the throw.    *)
WriteConfig(c) ==
    LET call == cfgCalls[c]
        input == call.input
        written == {ApplyUpdates(r, input) : r \in Visible(c)}
        rejected == \E r \in written : ~CheckPasswordMinLength(r.passwordMinLength)
        own == IF call.pending = NoConfig THEN {} ELSE {call.pending}
        ended == [call EXCEPT !.inTx = FALSE, !.pending = NoConfig,
                              !.inserted = FALSE]
    IN  /\ call.pc = "write"
        /\ input.fields # {} => cfgLock \in {0, c}
        /\ cfgLock' = IF cfgLock = c THEN 0 ELSE cfgLock
        /\ auth_configs' =
              IF input.fields = {} THEN CommitConfig(auth_configs, own)
              ELSE IF rejected THEN auth_configs
              ELSE CommitConfig(auth_configs, written)
        /\ cfgCalls' = [cfgCalls EXCEPT ![c] =
              IF input.fields = {} THEN [ended EXCEPT !.pc = "get"]
              ELSE IF rejected
                   THEN [ended EXCEPT !.pc = "done",
                                      !.outcome = UpdateFailure(NoOutcome)]
                   ELSE [ended EXCEPT !.pc = "done",
                                      !.result = SelectLimit1(written),
                                      !.outcome = ConfigReturned]]
        /\ cfgSucceeded' = (cfgSucceeded \/ (input.fields # {} /\ ~rejected))
        /\ UNCHANGED <<linkVars, reissued, pwdVars, verifyLimiterVars, adminVars, limiterVars, throttleVars, now, otpVars, oauthVars, cfgDef, nextId>>

----------------------------------------------------------------------------
(* OAuth routes.  oauthDef 1 is the router of unnamed/part_008 (validated   *)
(* origins, cookies), oauthDef 2 that of unnamed/part_007 (redirectUri in   *)
(* the state, tokens in the redirect URL).  A request is handled in one     *)
(* step: the router keeps no state of its own between requests.             *)

OAuthProviders == {"google", "github"}

(* a URL: protocol, host and the rest; an origin is a URL without the rest  *)
NoURI == [protocol |-> "", host |-> "", path |-> ""]
MalformedURI == [protocol |-> "", host |-> "", path |-> "not a url"]
AppURI == [protocol |-> "https:", host |-> "app.example", path |-> "/welcome"]
OtherURI == [protocol |-> "https:", host |-> "other.example", path |-> "/landing"]
RootPath == [protocol |-> "", host |-> "", path |-> "/"]

RedirectURIs == {NoURI, MalformedURI, AppURI, OtherURI}

(* new URL(text) throws on a text without a scheme *)
URLParses(u) == u.protocol # "" /\ u.host # ""

(* `${parsedUrl.protocol}//${parsedUrl.host}` *)
OriginOf(u) == [protocol |-> u.protocol, host |-> u.host, path |-> ""]

(* process.env.DEFAULT_FRONTEND_ORIGIN || 'http://localhost:3000' *)
DefaultFrontendOrigin ==
    [protocol |-> "http:", host |-> "localhost:3000", path |-> ""]

(* process.env.OAUTH_ALLOWED_ORIGINS?.split(',').map(trim) || []: an unset  *)
(* variable gives the empty list, an empty one the list of one empty text   *)
AllowedOriginsEnv == {"unset", "empty", "app"}

ParseAllowedOrigins(env) ==
    CASE env = "unset" -> {}
      [] env = "empty" -> {NoURI}
      [] OTHER -> {OriginOf(AppURI)}

(* state tickets: a JWT signed by jwt.sign carries its payload and exp; the *)
(* other texts a client can send as state are no ticket at all, a JWT with  *)
(* a wrong signature, and base64 of a JSON object                           *)
NoTicket ==
    [format |-> "none", provider |-> "", target |-> NoURI, createdAt |-> 0,
     exp |-> 0, signed |-> FALSE]

ForgedTicket ==
    [format |-> "jwt", provider |-> "google", target |-> OtherURI, createdAt |-> 0,
     exp |-> STATE_EXPIRY_MINUTES, signed |-> FALSE]

Base64JsonState ==
    [format |-> "base64json", provider |-> "", target |-> OtherURI, createdAt |-> 0,
     exp |-> 0, signed |-> FALSE]

(* jwt.sign(jwtPayload, jwtSecret, {algorithm: 'HS256', expiresIn: '1h'}) *)
JwtSign(provider, target, t) ==
    [format |-> "jwt", provider |-> provider, target |-> target, createdAt |-> t,
     exp |-> t + STATE_EXPIRY_MINUTES, signed |-> TRUE]

(* validateJwtSecret() followed by jwt.verify(state, jwtSecret): both throw *)
(* into the same catch                                                      *)
JwtVerifies(state, t) ==
    /\ oauthEnv.JWT_SECRET
    /\ state.format = "jwt"
    /\ state.signed
    /\ t < state.exp

(* JSON.parse(Buffer.from(state, 'base64').toString()) succeeds *)
Base64JsonParses(state) == state.format = "base64json"

TicketStatus(state, t) ==
    IF state = NoTicket THEN "missing"
    ELSE IF state.format # "jwt" \/ ~state.signed \/ ~oauthEnv.JWT_SECRET THEN "invalid"
    ELSE IF t >= state.exp THEN "expired"
    ELSE "valid"

States == {NoTicket, ForgedTicket, Base64JsonState} \cup tickets

(* the query string of a redirect *)
NoQuery == [success |-> FALSE, error |-> "", access_token |-> FALSE, user |-> FALSE]
SuccessQuery == [NoQuery EXCEPT !.success = TRUE]
ErrorQuery(text) == [NoQuery EXCEPT !.error = text]
TokenQuery == [NoQuery EXCEPT !.access_token = TRUE, !.user = TRUE]

(* what a handler did and answered.  kind: "json", "redirect", "error"      *)
(* (next(error): the error middleware answers) or "unhandled" (the handler  *)
(* threw out of its catch block and sent nothing).  cookie: the access_token*)
(* cookie the response sets ("set") or clears ("cleared").                  *)
NoResponse ==
    [kind |-> "none", error |-> NoOutcome, target |-> NoURI, query |-> NoQuery,
     cookie |-> "none", httpOnly |-> FALSE,
     signed |-> FALSE, asked |-> FALSE, exchanged |-> FALSE]

NoRequest ==
    [route |-> "none", provider |-> "", redirect_uri |-> NoURI, state |-> NoTicket,
     status |-> "none", exchange |-> "none", success |-> FALSE, providerError |-> ""]

PassToErrorHandler(error) == [NoResponse EXCEPT !.kind = "error", !.error = error]

Redirect(target, query) ==
    [NoResponse EXCEPT !.kind = "redirect", !.target = target, !.query = query]

(* setAuthCookies(res, result): the cookie is set only for a result with an *)
(* accessToken                                                              *)
SetAuthCookies(resp, exchange) ==
    IF exchange = "token"
    THEN [resp EXCEPT !.cookie = "set", !.httpOnly = TRUE]
    ELSE resp

ClearAuthCookies(resp) == [resp EXCEPT !.cookie = "cleared", !.httpOnly = TRUE]

(* validateJwtSecret throws AUTH_OAUTH_CONFIG_ERROR in part_008 and         *)
(* INTERNAL_ERROR in part_007                                               *)
JwtSecretError ==
    IF oauthDef = 1
    THEN AppError("JWT_SECRET environment variable is not configured. This is required for OAuth state protection.",
                  500, "AUTH_OAUTH_CONFIG_ERROR")
    ELSE AppError("JWT_SECRET environment variable is not configured.",
                  500, "INTERNAL_ERROR")

(* validateRedirectOrigin(redirectUri): the error it throws, or NoOutcome   *)
(* when it returns the origin                                               *)
ValidateRedirectOrigin(redirectUri) ==
    IF ~URLParses(redirectUri)
    THEN AppError("Invalid redirect URI format", 400, "INVALID_INPUT")
    ELSE IF ParseAllowedOrigins(oauthEnv.OAUTH_ALLOWED_ORIGINS) = {}
    THEN AppError("OAuth redirect validation is not configured. OAUTH_ALLOWED_ORIGINS must be set.",
                  500, "AUTH_OAUTH_CONFIG_ERROR")
    ELSE IF OriginOf(redirectUri) \notin ParseAllowedOrigins(oauthEnv.OAUTH_ALLOWED_ORIGINS)
    THEN AppError("Redirect origin not allowed", 400, "INVALID_INPUT")
    ELSE NoOutcome

(* only part_008 validates the redirect origin; part_007 stores redirect_uri *)
ValidatesOrigin == oauthDef = 1

(* the outcomes of the calls into AuthService: generateAuthUrl returns a    *)
(* URL or throws; handleOAuthCallback returns a result with an accessToken, *)
(* a result without one, or throws                                          *)
AuthUrlOutcomes == {"url", "throws"}

Exchanges == {"token", "notoken", "throws"}

(* GET /:provider *)
BeginFlow(provider, redirect_uri, adapter) ==
    LET originError == IF ValidatesOrigin THEN ValidateRedirectOrigin(redirect_uri)
                       ELSE NoOutcome
        target == IF ValidatesOrigin THEN OriginOf(redirect_uri) ELSE redirect_uri
        state == JwtSign(provider, target, now)
        refused ==
            IF provider \notin OAuthProviders
            THEN AppError("Unsupported OAuth provider", 400, "INVALID_INPUT")
            ELSE IF redirect_uri = NoURI
            THEN AppError("Redirect URI is required", 400, "INVALID_INPUT")
            ELSE IF originError # NoOutcome THEN originError
            ELSE IF ~oauthEnv.JWT_SECRET THEN JwtSecretError
            ELSE NoOutcome
        delivered == refused = NoOutcome /\ adapter = "url"
    IN  /\ delivered => (state \in tickets \/ Cardinality(tickets) < MaxTickets)
        /\ request' = [NoRequest EXCEPT !.route = "begin", !.provider = provider,
                                        !.redirect_uri = redirect_uri]
        /\ response' =
              IF refused # NoOutcome THEN PassToErrorHandler(refused)
              ELSE IF adapter = "throws"
              THEN [PassToErrorHandler(
                        AppError("OAuth is not properly configured. Please check your oauth configurations.",
                                 500, "AUTH_OAUTH_CONFIG_ERROR"))
                    EXCEPT !.signed = TRUE, !.asked = TRUE]
              ELSE [NoResponse EXCEPT !.kind = "json", !.signed = TRUE, !.asked = TRUE]
        /\ tickets' = IF delivered THEN tickets \cup {state} ELSE tickets
        /\ UNCHANGED <<linkVars, ticketUse, reissued, pwdVars, verifyLimiterVars, adminVars, limiterVars, throttleVars, now, otpVars, cfgVars, oauthDef, oauthEnv>>

(* part_008 clears the access_token cookie before an error redirect *)
ClearsCookies == oauthDef = 1

ClearedIfCookies(resp) == IF ClearsCookies THEN ClearAuthCookies(resp) ELSE resp

(* the response of a completed exchange: part_008 sets the cookie and       *)
(* redirects with success=true; part_007 puts access_token, user_id, email  *)
(* and name into the query of the redirect                                  *)
Completed(target, exchange) ==
    IF oauthDef = 1
    THEN SetAuthCookies(Redirect(target, SuccessQuery), exchange)
    ELSE Redirect(target, [TokenQuery EXCEPT !.access_token = (exchange = "token")])

(* history of the callbacks: a request with a valid ticket whose exchange   *)
(* returned an access token and which was answered with the redirect of a   *)
(* completed flow; again: such a request came with a ticket already used    *)
NoTicketUse == [used |-> {}, again |-> FALSE]

CompletesFlow(req, resp) ==
    /\ req.status = "valid"
    /\ req.exchange = "token"
    /\ resp.exchanged
    /\ resp.kind = "redirect"
    /\ resp.query.error = ""

RecordUse(req, resp) ==
    IF CompletesFlow(req, resp)
    THEN [used |-> ticketUse.used \cup {req.state},
          again |-> ticketUse.again \/ req.state \in ticketUse.used]
    ELSE ticketUse

(* GET /shared/callback/:state *)
SharedCallback(state, success, providerError, payload, exchange) ==
    LET target == state.target
        exchanged == payload = "ok"
        failed == ClearedIfCookies(Redirect(target, ErrorQuery("Authentication failed")))
    IN  /\ request' = [NoRequest EXCEPT !.route = "shared", !.state = state,
                                        !.status = TicketStatus(state, now),
                                        !.exchange = exchange,
                                        !.success = success,
                                        !.providerError = providerError]
        /\ response' =
              IF state = NoTicket
              THEN PassToErrorHandler(AppError("State parameter is required", 400, "INVALID_INPUT"))
              ELSE IF ~JwtVerifies(state, now)
              THEN PassToErrorHandler(AppError("Invalid state parameter", 400, "INVALID_INPUT"))
              ELSE IF state.provider \notin OAuthProviders
              THEN PassToErrorHandler(AppError("Invalid provider in state", 400, "INVALID_INPUT"))
              ELSE IF target = NoURI
              THEN PassToErrorHandler(AppError("Origin is required", 400, "INVALID_INPUT"))
              ELSE IF ~success
              THEN ClearedIfCookies(Redirect(target, ErrorQuery(
                       IF providerError # "" THEN providerError
                       ELSE "OAuth authentication failed")))
              ELSE IF payload = "absent"
              THEN PassToErrorHandler(AppError("No payload provided in callback", 400, "INVALID_INPUT"))
              ELSE IF payload = "garbage" THEN failed
              ELSE IF exchange = "throws" \/ (oauthDef = 2 /\ ~URLParses(target))
              THEN [failed EXCEPT !.exchanged = TRUE]
              ELSE [Completed(target, exchange) EXCEPT !.exchanged = TRUE]
        /\ ticketUse' = RecordUse(request', response')
        /\ UNCHANGED <<linkVars, reissued, pwdVars, verifyLimiterVars, adminVars, limiterVars, throttleVars, now, otpVars, cfgVars, oauthDef, oauthEnv, tickets>>

(* GET /:provider/callback in part_008 *)
ProviderCallbackCookies(provider, state, exchange) ==
    LET origin == IF state # NoTicket /\ JwtVerifies(state, now) /\ state.target # NoURI
                  THEN state.target ELSE DefaultFrontendOrigin
    IN  IF provider \notin OAuthProviders
        THEN ClearAuthCookies(Redirect(origin, ErrorQuery("Unsupported OAuth provider")))
        ELSE IF exchange = "throws"
        THEN [ClearAuthCookies(Redirect(origin, ErrorQuery("Authentication failed")))
              EXCEPT !.exchanged = TRUE]
        ELSE [Completed(origin, exchange) EXCEPT !.exchanged = TRUE]

(* GET /:provider/callback in part_007: the catch block takes the redirect  *)
(* target from the state read as base64 JSON and throws when it is no URL   *)
ProviderCallbackQuery(provider, state, exchange) ==
    LET redirectUri == IF state # NoTicket /\ JwtVerifies(state, now) /\ state.target # NoURI
                       THEN state.target ELSE RootPath
        errorUri == IF state # NoTicket /\ Base64JsonParses(state) /\ state.target # NoURI
                    THEN state.target ELSE RootPath
        caught(text) == IF URLParses(errorUri)
                        THEN Redirect(errorUri, ErrorQuery(text))
                        ELSE [NoResponse EXCEPT !.kind = "unhandled"]
    IN  IF provider \notin OAuthProviders
        THEN caught("Unsupported OAuth provider")
        ELSE IF exchange = "throws"
        THEN [caught("exception message") EXCEPT !.exchanged = TRUE]
        ELSE IF ~URLParses(redirectUri)
        THEN [caught("Invalid URL") EXCEPT !.exchanged = TRUE]
        ELSE [Completed(redirectUri, exchange) EXCEPT !.exchanged = TRUE]

ProviderCallback(provider, state, exchange) ==
    /\ request' = [NoRequest EXCEPT !.route = "provider", !.provider = provider,
                                    !.state = state,
                                    !.status = TicketStatus(state, now),
                                    !.exchange = exchange]
    /\ response' = IF oauthDef = 1
                   THEN ProviderCallbackCookies(provider, state, exchange)
                   ELSE ProviderCallbackQuery(provider, state, exchange)
    /\ ticketUse' = RecordUse(request', response')
    /\ UNCHANGED <<linkVars, reissued, pwdVars, verifyLimiterVars, adminVars, limiterVars, throttleVars, now, otpVars, cfgVars, oauthDef, oauthEnv, tickets>>

----------------------------------------------------------------------------
(* OAuth configuration routes (POST /configs, PUT /configs/:provider).  Both *)
(* router definitions hold the same handlers.  verifyAdmin has passed.      *)

(* the environment variables isCloudEnvironment reads; a value is the unset *)
(* variable (""), the text 'true' or another text                           *)
EnvNames == {"CLOUD_ENV", "DOKPLOY_DEPLOYMENT", "RENDER", "RAILWAY_ENVIRONMENT",
             "FLY_APP_NAME", "VERCEL", "NETLIFY"}

EnvValues == {"", "true", "other"}

NoEnv == [n \in EnvNames |-> ""]

(* the environments of the model: at most one of the variables is set *)
Environments ==
    {NoEnv} \cup {[NoEnv EXCEPT ![n] = v] : n \in EnvNames, v \in EnvValues \ {""}}

IsCloudEnvironment(env) ==
    \/ env["CLOUD_ENV"] = "true"
    \/ env["DOKPLOY_DEPLOYMENT"] = "true"
    \/ env["RENDER"] = "true"
    \/ env["RAILWAY_ENVIRONMENT"] # ""
    \/ env["FLY_APP_NAME"] # ""
    \/ env["VERCEL"] # ""
    \/ env["NETLIFY"] # ""

(* shared keys offered in every deployment *)
AlwaysAvailable(env) == TRUE

IsOAuthSharedKeysAvailable(env) == IsCloudEnvironment(env)

NoOAuthConfig == [exists |-> FALSE, useSharedKey |-> FALSE]

(* useSharedKey of a request body: absent, true or false *)
SharedKeyInputs == {"absent", "true", "false"}

NoAdminRequest ==
    [method |-> "none", provider |-> "", valid |-> FALSE, useSharedKey |-> "absent"]

SharedKeysError ==
    AppError("Shared OAuth keys are not enabled in this environment",
             400, "AUTH_OAUTH_CONFIG_ERROR")

(* the error of a body that fails safeParse, or of a bad provider name *)
AdminValidationError == AppError("validation issues", 400, "INVALID_INPUT")

(* an error thrown by OAuthConfigService or AuditService *)
AdminServiceError == AppError("service error", 500, "INTERNAL_ERROR")

AdminSuccess == [kind |-> "success", message |-> "", status |-> 200, code |-> ""]

ServiceOutcomes == {"ok", "throws"}

(* the handler of POST /configs and of PUT /configs/:provider: validation,  *)
(* the shared-key check, the service call, the audit entry, the broadcast   *)
(* and the answer; a throw at any step goes to next(error)                  *)
ConfigRoute(method, provider, valid, useSharedKey, action, stored, service, audit) ==
    LET rejected == valid /\ useSharedKey = "true"
                          /\ ~IsOAuthSharedKeysAvailable(cloudEnv)
        changed == valid /\ ~rejected /\ service = "ok"
        logged == changed /\ audit = "ok"
    IN  /\ Len(audit_logs) < MaxAuditLogs
        /\ broadcasts < MaxAuditLogs
        /\ adminRequest' = [method |-> method, provider |-> provider,
                            valid |-> valid, useSharedKey |-> useSharedKey]
        /\ oauth_configs' = IF changed
                            THEN [oauth_configs EXCEPT ![provider] = stored]
                            ELSE oauth_configs
        /\ audit_logs' = IF logged THEN Append(audit_logs, action) ELSE audit_logs
        /\ broadcasts' = IF logged THEN broadcasts + 1 ELSE broadcasts
        /\ adminResponse' =
              IF ~valid THEN AdminValidationError
              ELSE IF rejected THEN SharedKeysError
              ELSE IF service = "throws" \/ audit = "throws" THEN AdminServiceError
              ELSE AdminSuccess
        /\ UNCHANGED <<linkVars, reissued, pwdVars, verifyLimiterVars, limiterVars, throttleVars, now, otpVars, cfgVars, oauthVars, cloudEnv>>

(* POST /configs *)
CreateOAuthConfig(provider, valid, useSharedKey, service, audit) ==
    ConfigRoute("POST", provider, valid, useSharedKey, "CREATE_OAUTH_CONFIG",
                [exists |-> TRUE, useSharedKey |-> (useSharedKey = "true")],
                service, audit)

(* PUT /configs/:provider: a field absent from the body keeps its value *)
UpdateOAuthConfig(provider, valid, useSharedKey, service, audit) ==
    ConfigRoute("PUT", provider, valid, useSharedKey, "UPDATE_OAUTH_CONFIG",
                [exists |-> TRUE,
                 useSharedKey |-> IF useSharedKey = "absent"
                                  THEN oauth_configs[provider].useSharedKey
                                  ELSE useSharedKey = "true"],
                service, audit)

----------------------------------------------------------------------------
(* Rate limiters (api/middleware/rate-limiters.ts).  Times are milliseconds *)
(* of Date.now(), which does not run backwards.                             *)

(* the process starts at a time after the epoch *)
StartClock == 1

(* the amounts by which the clock moves between two events *)
ClockSteps == {1, 59999, fiveMinutes}

(* cooldownMs of the perEmailCooldown instances: the default and two custom *)
(* ones                                                                     *)
CooldownChoices == {1500, DefaultCooldownMs, 600000}

(* req.body?.email: absent, or a text (a sequence of characters) *)
NoEmail == [present |-> FALSE, text |-> <<>>]

BodyEmail(text) == [present |-> TRUE, text |-> text]

BodyEmails ==
    {NoEmail, BodyEmail(<<>>), BodyEmail(<<"B", "@", "x">>),
     BodyEmail(<<"b", "@", "x">>), BodyEmail(<<"a", "@", "x">>)}

LowerChar(c) ==
    CASE c = "A" -> "a"
      [] c = "B" -> "b"
      [] c = "X" -> "x"
      [] OTHER -> c

(* String.prototype.toLowerCase *)
KeepCase(text) == text

ToLowerCase(text) == [i \in DOMAIN text |-> LowerChar(text[i])]

(* !email: undefined and the empty text are falsy *)
NeverFalsy(email) == FALSE

Falsy(email) == ~email.present \/ email.text = <<>>

(* Math.ceil(n / d) and Math.floor(n / d) for a positive d *)
MathFloor(n, d) == n \div d

MathCeil(n, d) == -((-n) \div d)

(* emailCooldowns.get(email): the timestamp, or 0 for undefined.  A stored  *)
(* timestamp is a value of Date.now() and never 0.                          *)
MapGet(map, key) == IF key \in DOMAIN map THEN map[key] ELSE 0

(* a store that keeps the last entry only *)
MapSetOnly(map, key, value) == [k \in {key} |-> value]

(* emailCooldowns.set(email, now) *)
MapSet(map, key, value) ==
    [k \in DOMAIN map \cup {key} |-> IF k = key THEN value ELSE map[k]]

(* the email texts of the requests *)
EmailTexts == {e.text : e \in BodyEmails}

NoAdmission == [at |-> 0, swept |-> FALSE]

NeverAdmitted == [t \in EmailTexts |-> NoAdmission]

NoCooldownCall ==
    [email |-> NoEmail, cooldownMs |-> 0, at |-> 0, lastRequest |-> 0,
     admitted |-> NeverAdmitted, next |-> FALSE, error |-> NoOutcome, remainingSec |-> 0]

CooldownError ==
    AppError("Please wait ${remainingSec} seconds before requesting another code for this email",
             429, "TOO_MANY_REQUESTS")

(* Date.now() moves on *)
Advance(d) ==
    /\ advances < MaxAdvances
    /\ clock' = clock + d
    /\ advances' = advances + 1
    /\ UNCHANGED <<linkVars, reissued, pwdVars, verifyLimiterVars, now, otpVars, cfgVars, oauthVars, adminVars, throttleVars,
                   nextSweep, emailCooldowns, admittedAt, cooldownCall>>

(* variant: a sweep that also deletes an entry exactly five minutes old *)
SweepDeletesFromFive(timestamp) == clock - timestamp >= fiveMinutes

(* now - timestamp > fiveMinutes *)
SweepDeletes(timestamp) == clock - timestamp > fiveMinutes

(* the setInterval callback: it runs once its interval has passed and       *)
(* deletes the entries older than five minutes                              *)
Sweep ==
    /\ clock >= nextSweep
    /\ emailCooldowns' =
          [k \in {e \in DOMAIN emailCooldowns : ~SweepDeletes(emailCooldowns[e])}
             |-> emailCooldowns[k]]
    /\ admittedAt' =
          [t \in EmailTexts |->
              IF admittedAt[t].at # 0 /\ SweepDeletes(admittedAt[t].at)
              THEN [admittedAt[t] EXCEPT !.swept = TRUE]
              ELSE admittedAt[t]]
    /\ nextSweep' = nextSweep + fiveMinutes
    /\ UNCHANGED <<linkVars, reissued, pwdVars, verifyLimiterVars, now, otpVars, cfgVars, oauthVars, adminVars, throttleVars,
                   clock, advances, cooldownCall>>

(* now - lastRequest < cooldownMs *)
ThroughCooldown(elapsed, cooldownMs) == elapsed <= cooldownMs

InCooldown(elapsed, cooldownMs) == elapsed < cooldownMs

(* variant: a middleware that stores the time of every request with an      *)
(* email, the rejected ones included                                        *)
CooldownRefreshedByRetry(cooldownMs, bodyEmail) ==
    LET email == ToLowerCase(bodyEmail.text)
        lastRequest == MapGet(emailCooldowns, email)
        rejected == lastRequest # 0 /\ InCooldown(clock - lastRequest, cooldownMs)
        remainingMs == cooldownMs - (clock - lastRequest)
        call == [NoCooldownCall EXCEPT !.email = bodyEmail, !.cooldownMs = cooldownMs,
                                       !.at = clock, !.admitted = admittedAt]
    IN  /\ cooldownCall' =
              IF Falsy(bodyEmail) THEN [call EXCEPT !.next = TRUE]
              ELSE IF rejected
              THEN [call EXCEPT !.lastRequest = lastRequest,
                                !.error = CooldownError,
                                !.remainingSec = MathCeil(remainingMs, 1000)]
              ELSE [call EXCEPT !.lastRequest = lastRequest, !.next = TRUE]
        /\ emailCooldowns' = IF Falsy(bodyEmail) THEN emailCooldowns
                             ELSE MapSet(emailCooldowns, email, clock)
        /\ admittedAt' = IF Falsy(bodyEmail) \/ rejected THEN admittedAt
                         ELSE [admittedAt EXCEPT ![bodyEmail.text] =
                                  [at |-> clock, swept |-> FALSE]]

(* the middleware returned by perEmailCooldown(cooldownMs), called with a   *)
(* request whose body holds bodyEmail                                       *)
CooldownMiddleware(cooldownMs, bodyEmail) ==
    LET email == ToLowerCase(bodyEmail.text)
        lastRequest == MapGet(emailCooldowns, email)
        rejected == lastRequest # 0 /\ InCooldown(clock - lastRequest, cooldownMs)
        remainingMs == cooldownMs - (clock - lastRequest)
        call == [NoCooldownCall EXCEPT !.email = bodyEmail, !.cooldownMs = cooldownMs,
                                       !.at = clock, !.admitted = admittedAt]
    IN  /\ cooldownCall' =
              IF Falsy(bodyEmail) THEN [call EXCEPT !.next = TRUE]
              ELSE IF rejected
              THEN [call EXCEPT !.lastRequest = lastRequest,
                                !.error = CooldownError,
                                !.remainingSec = MathCeil(remainingMs, 1000)]
              ELSE [call EXCEPT !.lastRequest = lastRequest, !.next = TRUE]
        /\ emailCooldowns' = IF Falsy(bodyEmail) \/ rejected THEN emailCooldowns
                             ELSE MapSet(emailCooldowns, email, clock)
        /\ admittedAt' = IF Falsy(bodyEmail) \/ rejected THEN admittedAt
                         ELSE [admittedAt EXCEPT ![bodyEmail.text] =
                                  [at |-> clock, swept |-> FALSE]]

(* a request handled by a perEmailCooldown middleware alone *)
PerEmailCooldown(cooldownMs, bodyEmail) ==
    /\ CooldownMiddleware(cooldownMs, bodyEmail)
    /\ UNCHANGED <<linkVars, reissued, pwdVars, verifyLimiterVars, now, otpVars, cfgVars, oauthVars, adminVars, throttleVars,
                   clock, advances, nextSweep>>

(* sendEmailOTPLimiter: sendEmailOTPRateLimiter, then perEmailCooldown(60000), *)
(* then the route handler.  The limiter of express-rate-limit counts a      *)
(* request when it arrives, in the window of its source IP, and with        *)
(* skipFailedRequests takes the count back when the response finishes with  *)
(* a failure status.                                                        *)
IPs == {"10.0.0.1"}

Slots == 1..MaxInFlight

(* the amounts by which the clock moves between two issuance events *)
WindowSteps == {DefaultCooldownMs, windowMs}

(* the emails of the issuance requests of the model *)
SendEmails == {NoEmail, BodyEmail(<<"a", "@", "x">>)}

skipSuccessfulRequests == FALSE

CountsFailedRequests == FALSE

skipFailedRequests == TRUE

TooManyRequestsError ==
    AppError("Too many send email verification requests from this IP. Please try again in 15 minutes.",
             429, "TOO_MANY_REQUESTS")

NoInFlight == [ip |-> "", window |-> 0, stage |-> "none"]

NoThrottleCall ==
    [ip |-> "", email |-> NoEmail, at |-> 0, counted |-> 0, error |-> NoOutcome]

(* the window of ip has ended: the next hit opens a new one *)
WindowEnded(ip) == resetTime[ip] <= clock

(* variant: the chain in the other order, perEmailCooldown before the       *)
(* per-IP limiter                                                           *)
CooldownBeforeRateLimiter(slot, ip, bodyEmail) ==
    LET before == IF WindowEnded(ip) THEN 0 ELSE hits[ip]
        countedBefore == IF WindowEnded(ip) THEN 0 ELSE counted[ip]
        window == IF WindowEnded(ip) THEN clock + windowMs ELSE resetTime[ip]
        totalHits == before + 1
        limited == totalHits > max
    IN  /\ inflight[slot] = NoInFlight
        /\ CooldownMiddleware(DefaultCooldownMs, bodyEmail)
        /\ IF cooldownCall'.next
           THEN /\ hits' = [hits EXCEPT ![ip] = totalHits]
                /\ resetTime' = [resetTime EXCEPT ![ip] = window]
                /\ counted' = [counted EXCEPT ![ip] = countedBefore]
                /\ throttleCall' =
                      [ip |-> ip, email |-> bodyEmail, at |-> clock,
                       counted |-> countedBefore,
                       error |-> IF limited THEN TooManyRequestsError ELSE NoOutcome]
                /\ inflight' = [inflight EXCEPT ![slot] =
                                   [ip |-> ip, window |-> window,
                                    stage |-> IF limited THEN "limited" ELSE "handler"]]
           ELSE /\ inflight' = [inflight EXCEPT ![slot] =
                                   [ip |-> ip, window |-> resetTime[ip],
                                    stage |-> "cooldown"]]
                /\ UNCHANGED <<hits, resetTime, counted, throttleCall>>
        /\ UNCHANGED <<linkVars, reissued, pwdVars, verifyLimiterVars, now, otpVars, cfgVars, oauthVars, adminVars,
                       clock, advances, nextSweep>>

(* a request from ip arrives and runs through the two middlewares *)
SendEmailOTPLimiter(slot, ip, bodyEmail) ==
    LET before == IF WindowEnded(ip) THEN 0 ELSE hits[ip]
        countedBefore == IF WindowEnded(ip) THEN 0 ELSE counted[ip]
        window == IF WindowEnded(ip) THEN clock + windowMs ELSE resetTime[ip]
        totalHits == before + 1
        limited == totalHits > max
    IN  /\ inflight[slot] = NoInFlight
        /\ hits' = [hits EXCEPT ![ip] = totalHits]
        /\ resetTime' = [resetTime EXCEPT ![ip] = window]
        /\ counted' = [counted EXCEPT ![ip] = countedBefore]
        /\ throttleCall' = [ip |-> ip, email |-> bodyEmail, at |-> clock,
                            counted |-> countedBefore,
                            error |-> IF limited THEN TooManyRequestsError ELSE NoOutcome]
        /\ IF limited
           THEN /\ inflight' = [inflight EXCEPT ![slot] =
                                   [ip |-> ip, window |-> window, stage |-> "limited"]]
                /\ UNCHANGED <<linkVars, reissued, pwdVars, verifyLimiterVars, emailCooldowns, admittedAt, cooldownCall>>
           ELSE /\ CooldownMiddleware(DefaultCooldownMs, bodyEmail)
                /\ inflight' = [inflight EXCEPT ![slot] =
                                   [ip |-> ip, window |-> window,
                                    stage |-> IF cooldownCall'.next THEN "handler"
                                              ELSE "cooldown"]]
        /\ UNCHANGED <<linkVars, reissued, pwdVars, verifyLimiterVars, now, otpVars, cfgVars, oauthVars, adminVars,
                       clock, advances, nextSweep>>

(* the response of a request finishes: the error middleware answers a       *)
(* request a middleware rejected with its 429, the route handler answers    *)
(* with success or with a failure status                                    *)
ResponseFinish(slot, handler) ==
    LET r == inflight[slot]
        successful == r.stage = "handler" /\ handler = "success"
        skipped == IF successful THEN skipSuccessfulRequests ELSE skipFailedRequests
        current == r.window = resetTime[r.ip]
    IN  /\ r # NoInFlight
        /\ inflight' = [inflight EXCEPT ![slot] = NoInFlight]
        /\ hits' = IF skipped /\ current /\ hits[r.ip] > 0
                   THEN [hits EXCEPT ![r.ip] = @ - 1]
                   ELSE hits
        /\ counted' = IF ~skipped /\ current
                      THEN [counted EXCEPT ![r.ip] = @ + 1]
                      ELSE counted
        /\ UNCHANGED <<linkVars, reissued, pwdVars, verifyLimiterVars, now, otpVars, cfgVars, oauthVars, adminVars, limiterVars,
                       resetTime, throttleCall>>

(* verifyOTPLimiter: the chain of the verification route *)
VerifyWithCooldown == <<"verifyOTPRateLimiter", "perEmailCooldown">>

verifyOTPLimiter == <<"verifyOTPRateLimiter">>

(* verification requests are handled one at a time in the model *)
VerifySlots == {1}

(* the emails of the verification requests of the model *)
VerifyEmails == {BodyEmail(<<"a", "@", "x">>)}

VerifyTooManyError ==
    AppError("Too many verification attempts from this IP. Please try again in 15 minutes.",
             429, "TOO_MANY_REQUESTS")

NoVerifyCall ==
    [ip |-> "", email |-> NoEmail, at |-> 0, hits |-> 0, lastRequest |-> 0,
     error |-> NoOutcome]

(* a verification request from ip arrives and runs through its chain: the   *)
(* per-IP limiter, and perEmailCooldown if the chain holds it               *)
VerifyOTPLimiter(slot, ip, bodyEmail) ==
    LET ended == verifyResetTime[ip] <= clock
        before == IF ended THEN 0 ELSE verifyHits[ip]
        window == IF ended THEN clock + windowMs ELSE verifyResetTime[ip]
        totalHits == before + 1
        limited == totalHits > verifyMax
        cooled == ~limited /\ \E i \in DOMAIN verifyOTPLimiter :
                                  verifyOTPLimiter[i] = "perEmailCooldown"
        call == [NoVerifyCall EXCEPT !.ip = ip, !.email = bodyEmail, !.at = clock,
                    !.hits = before,
                    !.lastRequest = MapGet(emailCooldowns, ToLowerCase(bodyEmail.text))]
    IN  /\ verifyInflight[slot] = NoInFlight
        /\ before < MaxVerifyHits
        /\ verifyHits' = [verifyHits EXCEPT ![ip] = totalHits]
        /\ verifyResetTime' = [verifyResetTime EXCEPT ![ip] = window]
        /\ IF cooled
           THEN CooldownMiddleware(DefaultCooldownMs, bodyEmail)
           ELSE UNCHANGED <<emailCooldowns, admittedAt, cooldownCall>>
        /\ verifyCall' =
              IF limited THEN [call EXCEPT !.error = VerifyTooManyError]
              ELSE IF cooled THEN [call EXCEPT !.error = cooldownCall'.error]
              ELSE call
        /\ verifyInflight' = [verifyInflight EXCEPT ![slot] =
                                 [ip |-> ip, window |-> window,
                                  stage |-> IF verifyCall'.error = NoOutcome
                                            THEN "handler" ELSE "limited"]]
        /\ UNCHANGED <<linkVars, reissued, pwdVars, now, otpVars, cfgVars, oauthVars, adminVars, throttleVars,
                       clock, advances, nextSweep>>

(* the response of a verification request finishes; with                    *)
(* skipSuccessfulRequests the hit of a successful one is taken back         *)
VerifyResponseFinish(slot, handler) ==
    LET r == verifyInflight[slot]
        successful == r.stage = "handler" /\ handler = "success"
        current == r.window = verifyResetTime[r.ip]
    IN  /\ r # NoInFlight
        /\ verifyInflight' = [verifyInflight EXCEPT ![slot] = NoInFlight]
        /\ verifyHits' = IF successful /\ current /\ verifyHits[r.ip] > 0
                         THEN [verifyHits EXCEPT ![r.ip] = @ - 1]
                         ELSE verifyHits
        /\ UNCHANGED <<linkVars, reissued, pwdVars, now, otpVars, cfgVars, oauthVars, adminVars, limiterVars,
                       throttleVars, verifyResetTime, verifyCall>>

(* getPasswordRequirementsMessage.  A text is the list of its pieces; a     *)
(* template literal puts a number in as its decimal digits.                 *)
PolicyLengths == {4, 6, 8, 128}

Policies ==
    [passwordMinLength : PolicyLengths, requireNumber : BOOLEAN,
     requireLowercase : BOOLEAN, requireUppercase : BOOLEAN,
     requireSpecialChar : BOOLEAN]

NotCalled == <<>>

(* requirements.push(text) when the flag is set *)
PushIf(flag, requirements, text) ==
    IF flag THEN Append(requirements, text) ELSE requirements

(* requirements.join(', ') *)
RECURSIVE Join(_, _)
Join(list, separator) ==
    IF list = <<>> THEN <<>>
    ELSE IF Len(list) = 1 THEN list
    ELSE <<Head(list), separator>> \o Join(Tail(list), separator)

MinLengthRule(n) == "at least " \o ToString(n) \o " characters long"

(* a message that lists every rule whatever the flags are *)
MessageOfAllRules(config) ==
    <<"Password must contain ">> \o
    Join(<<MinLengthRule(config.passwordMinLength), "at least one number",
           "at least one lowercase letter", "at least one uppercase letter",
           "at least one special character">>, ", ")

GetPasswordRequirementsMessage(config) ==
    LET r0 == <<MinLengthRule(config.passwordMinLength)>>
        r1 == PushIf(config.requireNumber, r0, "at least one number")
        r2 == PushIf(config.requireLowercase, r1, "at least one lowercase letter")
        r3 == PushIf(config.requireUppercase, r2, "at least one uppercase letter")
        r4 == PushIf(config.requireSpecialChar, r3, "at least one special character")
    IN  <<"Password must contain ">> \o Join(r4, ", ")

(* a caller asks for the message of the policy it holds *)
RequirementsMessage ==
    /\ pwdMessage = NotCalled
    /\ pwdMessage' = GetPasswordRequirementsMessage(pwdConfig)
    /\ UNCHANGED <<linkVars, reissued, now, otpVars, cfgVars, oauthVars, adminVars, limiterVars,
                   throttleVars, verifyLimiterVars, pwdConfig>>

(* Long (link) tokens.  The migration describes them (a 64-character hex    *)
(* token, stored as its SHA-256 hash in otp_hash, looked up through          *)
(* idx_email_otps_otp_hash) and verifyEmailRequestSchema accepts a request   *)
(* without email; the service methods follow the description of the          *)
(* operations issueLongToken and verifyLongToken.                            *)
Tokens == 0..MaxCode

LINK_TOKEN_EXPIRY_HOURS == 24

(* SHA-256: unsalted, so equal tokens have equal hashes *)
Sha256(token) == 3 * token + 7

NoLinkRow ==
    [email |-> "", purpose |-> "", otp_hash |-> NULL, expires_at |-> 0,
     consumed_at |-> NULL, attempts_count |-> 0]

IdleLink ==
    [pc |-> "idle", purpose |-> "", token |-> NULL, found |-> NoLinkRow,
     outcome |-> NoOutcome, identity |-> ""]

(* the clock passes the life of a link token *)
AdvanceDay ==
    /\ now <= LINK_TOKEN_EXPIRY_HOURS * 60
    /\ now' = now + LINK_TOKEN_EXPIRY_HOURS * 60 + 1
    /\ UNCHANGED <<otpVars, cfgVars, oauthVars, adminVars, limiterVars, throttleVars,
                   verifyLimiterVars, pwdVars, reissued, linkVars>>

(* issueLongToken: the upsert of the pair's row with the hash of a new token *)
IssueLongToken(email, purpose, token) ==
    /\ link_otps' =
          {r \in link_otps : ~(r.email = email /\ r.purpose = purpose)}
            \cup {[email |-> email, purpose |-> purpose, otp_hash |-> Sha256(token),
                   expires_at |-> now + LINK_TOKEN_EXPIRY_HOURS * 60,
                   consumed_at |-> NULL, attempts_count |-> 0]}
    /\ linkOk' = [t \in Tokens |-> 0]
    /\ UNCHANGED <<now, otpVars, cfgVars, oauthVars, adminVars, limiterVars,
                   throttleVars, verifyLimiterVars, pwdVars, reissued, linkCalls>>

(* the lookup by hash, purpose, not expired and not consumed *)
LookupByHash(table, purpose, token, t) ==
    {r \in table : r.otp_hash = Sha256(token) /\ r.purpose = purpose
                     /\ t <= r.expires_at /\ r.consumed_at = NULL}

(* variant: a consume that updates the row whatever consumed_at is *)
ConsumeAlways(row) == TRUE

(* the conditional update: it changes a row whose consumed_at is still NULL *)
ConsumeApplies(row) == row.consumed_at = NULL

(* verifyLongToken(purpose, candidate): the lookup; without a row the call  *)
(* ends in the generic error                                                *)
VerifyLongTokenLookup(c, purpose, token) ==
    LET rows == LookupByHash(link_otps, purpose, token, now)
        started == [IdleLink EXCEPT !.purpose = purpose, !.token = token]
    IN  /\ linkCalls[c].pc \in {"idle", "done"}
        /\ linkCalls' = [linkCalls EXCEPT ![c] =
              IF rows = {}
              THEN [started EXCEPT !.pc = "done", !.outcome = ThrowInvalidRecord]
              ELSE [started EXCEPT !.pc = "consume",
                                   !.found = CHOOSE r \in rows : TRUE]]
        /\ UNCHANGED <<now, otpVars, cfgVars, oauthVars, adminVars, limiterVars,
                       throttleVars, verifyLimiterVars, pwdVars, reissued,
                       link_otps, linkOk>>

(* the conditional consume of the row found, by its id (the row of the      *)
(* pair), and the return of the identity recovered from the matched row     *)
VerifyLongTokenConsume(c) ==
    LET call == linkCalls[c]
        rows == {r \in link_otps : r.email = call.found.email
                                    /\ r.purpose = call.found.purpose}
        updated == {r \in rows : ConsumeApplies(r)}
    IN  /\ call.pc = "consume"
        /\ link_otps' = (link_otps \ updated)
                          \cup {[r EXCEPT !.consumed_at = now] : r \in updated}
        /\ linkCalls' = [linkCalls EXCEPT ![c] =
              IF updated = {}
              THEN [call EXCEPT !.pc = "done", !.outcome = ThrowInvalidRecord]
              ELSE [call EXCEPT !.pc = "done", !.outcome = VerifyOTPResult,
                                !.identity = call.found.email]]
        /\ linkOk' = IF updated = {} THEN linkOk
                     ELSE [linkOk EXCEPT ![call.token] = @ + 1]
        /\ UNCHANGED <<now, otpVars, cfgVars, oauthVars, adminVars, limiterVars,
                       throttleVars, verifyLimiterVars, pwdVars, reissued>>

----------------------------------------------------------------------------
(* Specifications *)

OTPAtRest ==
    /\ reissued = [p \in Pairs |-> NotIssued]
    /\ otpDef = 1
    /\ email_otps = {}
    /\ rowLock = [p \in Pairs |-> 0]
    /\ verifyCalls = [c \in Calls |-> IdleVerify]
    /\ okReturned = [p \in Pairs |-> 0]
    /\ okCommitted = [p \in Pairs |-> FALSE]
    /\ wrongDone = [p \in Pairs |-> 0]

ConfigAtRest ==
    /\ cfgDef = 1
    /\ auth_configs = {}
    /\ cfgLock = 0
    /\ cfgCalls = [c \in ConfigCalls |-> IdleConfigCall]
    /\ nextId = 2
    /\ cfgSucceeded = FALSE

LimiterAtRest ==
    /\ clock = StartClock
    /\ advances = 0
    /\ nextSweep = StartClock + fiveMinutes
    /\ emailCooldowns = << >>
    /\ admittedAt = NeverAdmitted
    /\ cooldownCall = NoCooldownCall

ThrottleAtRest ==
    /\ hits = [ip \in IPs |-> 0]
    /\ resetTime = [ip \in IPs |-> 0]
    /\ inflight = [slot \in Slots |-> NoInFlight]
    /\ counted = [ip \in IPs |-> 0]
    /\ throttleCall = NoThrottleCall

VerifyLimiterAtRest ==
    /\ verifyHits = [ip \in IPs |-> 0]
    /\ verifyResetTime = [ip \in IPs |-> 0]
    /\ verifyInflight = [slot \in VerifySlots |-> NoInFlight]
    /\ verifyCall = NoVerifyCall

LinkAtRest ==
    /\ link_otps = {}
    /\ linkCalls = [c \in Calls |-> IdleLink]
    /\ linkOk = [t \in Tokens |-> 0]

PolicyAtRest ==
    /\ pwdConfig = [passwordMinLength |-> 6, requireNumber |-> FALSE,
                    requireLowercase |-> FALSE, requireUppercase |-> FALSE,
                    requireSpecialChar |-> FALSE]
    /\ pwdMessage = NotCalled

AdminAtRest ==
    /\ cloudEnv = NoEnv
    /\ oauth_configs = [p \in OAuthProviders |-> NoOAuthConfig]
    /\ audit_logs = <<>>
    /\ broadcasts = 0
    /\ adminRequest = NoAdminRequest
    /\ adminResponse = NoOutcome

OAuthAtRest ==
    /\ oauthDef = 1
    /\ oauthEnv = [JWT_SECRET |-> TRUE, OAUTH_ALLOWED_ORIGINS |-> "app"]
    /\ tickets = {}
    /\ request = NoRequest
    /\ response = NoResponse
    /\ ticketUse = NoTicketUse

InitOTP ==
    /\ now = 0
    /\ otpDef \in {1, 2}
    /\ email_otps = {}
    /\ rowLock = [p \in Pairs |-> 0]
    /\ verifyCalls = [c \in Calls |-> IdleVerify]
    /\ okReturned = [p \in Pairs |-> 0]
    /\ okCommitted = [p \in Pairs |-> FALSE]
    /\ wrongDone = [p \in Pairs |-> 0]
    /\ reissued = [p \in Pairs |-> NotIssued]
    /\ ConfigAtRest
    /\ OAuthAtRest
    /\ AdminAtRest
    /\ LimiterAtRest
    /\ ThrottleAtRest
    /\ VerifyLimiterAtRest
    /\ PolicyAtRest
    /\ LinkAtRest

NextOTP ==
    \/ Tick
    \/ \E e \in Emails, p \in EmailOTPPurpose, code \in Codes, s \in Salts :
          CreateEmailOTP(e, p, code, s)
    \/ \E c \in Calls, e \in Emails, p \in EmailOTPPurpose, code \in Codes, x \in BOOLEAN :
          VerifySelect(c, e, p, code, x)
    \/ \E c \in Calls : VerifyIncrement(c)
    \/ \E c \in Calls : VerifyConsume(c)
    \/ \E c \in Calls : CallerEnd(c)

SpecOTP == InitOTP /\ [][NextOTP]_vars

(* Scheduling: a statement sent to the database runs once the lock it waits *)
(* for is granted, and PostgreSQL grants a row lock to its waiters in turn  *)
(* (strong fairness for the two updates); the owner of an external client   *)
(* ends its transaction once verifyEmailOTP has returned or thrown.         *)
FairOTP ==
    \A c \in Calls :
        /\ SF_vars(VerifyIncrement(c))
        /\ SF_vars(VerifyConsume(c))
        /\ WF_vars(CallerEnd(c))

SpecOTPFair == InitOTP /\ [][NextOTP]_vars /\ FairOTP

(* issuance and verification one after the other, each verification in a    *)
(* transaction of its own                                                   *)
NextReissue ==
    \/ Tick
    \/ \E e \in Emails, p \in EmailOTPPurpose, code \in Codes, s \in Salts :
          ReissueEmailOTP(e, p, code, s)
    \/ \E e \in Emails, p \in EmailOTPPurpose, code \in Codes :
          VerifySelect(1, e, p, code, FALSE)
    \/ VerifyIncrement(1)
    \/ VerifyConsume(1)

SpecReissue == InitOTP /\ [][NextReissue]_vars

(* the table is empty, or holds the row the migration seeds *)
InitConfig ==
    /\ now = 0
    /\ OTPAtRest
    /\ cfgDef \in {1, 2}
    /\ auth_configs \in {{}, {DefaultConfig(1)}}
    /\ cfgLock = 0
    /\ cfgCalls = [c \in ConfigCalls |-> IdleConfigCall]
    /\ nextId = 2
    /\ cfgSucceeded = FALSE
    /\ OAuthAtRest
    /\ AdminAtRest
    /\ LimiterAtRest
    /\ ThrottleAtRest
    /\ VerifyLimiterAtRest
    /\ PolicyAtRest
    /\ LinkAtRest

NextConfig ==
    \/ \E c \in ConfigCalls : GetEmailConfig(c)
    \/ \E c \in ConfigCalls : CreateDefaultConfig(c)
    \/ \E c \in ConfigCalls : RereadConfig(c)
    \/ \E c \in ConfigCalls, input \in UpdateInputs : UpdateEmailConfig(c, input)
    \/ \E c \in ConfigCalls : WriteConfig(c)

SpecConfig == InitConfig /\ [][NextConfig]_vars

InitOAuth ==
    /\ now = 0
    /\ OTPAtRest
    /\ ConfigAtRest
    /\ oauthDef \in {1, 2}
    /\ oauthEnv \in [JWT_SECRET : BOOLEAN, OAUTH_ALLOWED_ORIGINS : AllowedOriginsEnv]
    /\ tickets = {}
    /\ request = NoRequest
    /\ response = NoResponse
    /\ ticketUse = NoTicketUse
    /\ AdminAtRest
    /\ LimiterAtRest
    /\ ThrottleAtRest
    /\ VerifyLimiterAtRest
    /\ PolicyAtRest
    /\ LinkAtRest

NextOAuth ==
    \/ Tick
    \/ \E provider \in OAuthProviders \cup {"unknown"}, uri \in RedirectURIs,
          adapter \in AuthUrlOutcomes : BeginFlow(provider, uri, adapter)
    \/ \E state \in States, success \in BOOLEAN,
          providerError \in {"", "access_denied"},
          payload \in {"absent", "garbage", "ok"}, exchange \in Exchanges :
          SharedCallback(state, success, providerError, payload, exchange)
    \/ \E provider \in OAuthProviders \cup {"unknown"}, state \in States,
          exchange \in Exchanges : ProviderCallback(provider, state, exchange)

SpecOAuth == InitOAuth /\ [][NextOAuth]_vars

InitAdmin ==
    /\ now = 0
    /\ OTPAtRest
    /\ ConfigAtRest
    /\ OAuthAtRest
    /\ cloudEnv \in Environments
    /\ oauth_configs = [p \in OAuthProviders |-> NoOAuthConfig]
    /\ audit_logs = <<>>
    /\ broadcasts = 0
    /\ adminRequest = NoAdminRequest
    /\ adminResponse = NoOutcome
    /\ LimiterAtRest
    /\ ThrottleAtRest
    /\ VerifyLimiterAtRest
    /\ PolicyAtRest
    /\ LinkAtRest

NextAdmin ==
    \/ \E provider \in OAuthProviders, valid \in BOOLEAN, useSharedKey \in SharedKeyInputs,
          service \in ServiceOutcomes, audit \in ServiceOutcomes :
          CreateOAuthConfig(provider, valid, useSharedKey, service, audit)
    \/ \E provider \in OAuthProviders, valid \in BOOLEAN, useSharedKey \in SharedKeyInputs,
          service \in ServiceOutcomes, audit \in ServiceOutcomes :
          UpdateOAuthConfig(provider, valid, useSharedKey, service, audit)

SpecAdmin == InitAdmin /\ [][NextAdmin]_vars

InitCooldown ==
    /\ now = 0
    /\ OTPAtRest
    /\ ConfigAtRest
    /\ OAuthAtRest
    /\ AdminAtRest
    /\ LimiterAtRest
    /\ ThrottleAtRest
    /\ VerifyLimiterAtRest
    /\ PolicyAtRest
    /\ LinkAtRest

NextCooldown ==
    \/ \E d \in ClockSteps : Advance(d)
    \/ Sweep
    \/ \E cooldownMs \in CooldownChoices, bodyEmail \in BodyEmails :
          PerEmailCooldown(cooldownMs, bodyEmail)

SpecCooldown == InitCooldown /\ [][NextCooldown]_vars

NextSendLimiter ==
    \/ \E d \in WindowSteps : Advance(d)
    \/ Sweep
    \/ \E slot \in Slots, ip \in IPs, bodyEmail \in SendEmails :
          SendEmailOTPLimiter(slot, ip, bodyEmail)
    \/ \E slot \in Slots, handler \in {"success", "failure"} :
          ResponseFinish(slot, handler)

SpecSendLimiter == InitCooldown /\ [][NextSendLimiter]_vars

NextVerifyLimiter ==
    \/ \E d \in WindowSteps : Advance(d)
    \/ Sweep
    \/ \E bodyEmail \in VerifyEmails : PerEmailCooldown(DefaultCooldownMs, bodyEmail)
    \/ \E slot \in VerifySlots, ip \in IPs, bodyEmail \in VerifyEmails :
          VerifyOTPLimiter(slot, ip, bodyEmail)
    \/ \E slot \in VerifySlots, handler \in {"success", "failure"} :
          VerifyResponseFinish(slot, handler)

SpecVerifyLimiter == InitCooldown /\ [][NextVerifyLimiter]_vars

InitPolicyMessage ==
    /\ now = 0
    /\ OTPAtRest
    /\ ConfigAtRest
    /\ OAuthAtRest
    /\ AdminAtRest
    /\ LimiterAtRest
    /\ ThrottleAtRest
    /\ VerifyLimiterAtRest
    /\ pwdConfig \in Policies
    /\ pwdMessage = NotCalled
    /\ LinkAtRest

NextPolicyMessage == RequirementsMessage

SpecPolicyMessage == InitPolicyMessage /\ [][NextPolicyMessage]_vars

NextLinkToken ==
    \/ AdvanceDay
    \/ \E e \in Emails, p \in EmailOTPPurpose, token \in Tokens :
          IssueLongToken(e, p, token)
    \/ \E c \in Calls, p \in EmailOTPPurpose, token \in Tokens :
          VerifyLongTokenLookup(c, p, token)
    \/ \E c \in Calls : VerifyLongTokenConsume(c)

SpecLinkToken == InitCooldown /\ [][NextLinkToken]_vars

----------------------------------------------------------------------------
(* Properties of AuthOTPService *)

GenericOTPError ==
    AppError("Invalid or expired verification code", 400, "INVALID_INPUT")

Settled(c) == verifyCalls[c].pc = "done"

Failed(c) == Settled(c) /\ verifyCalls[c].outcome.kind = "error"

Succeeded(c) == Settled(c) /\ verifyCalls[c].outcome = VerifyOTPResult

\* C1: of the verifyEmailOTP calls that present the correct code for one
\* issued (email, purpose) row, at most one returns success, however the
\* calls interleave.
C1_AtMostOneSuccess == \A p \in Pairs : okReturned[p] <= 1

\* C2: a call that presents the issued code for a row that is unexpired,
\* unconsumed and below the attempt limit succeeds, and every call with that
\* code made after a successful verification has committed, with no new
\* issuance in between, fails with the generic error.
C2_SingleUse ==
    \A c \in Calls : Settled(c) =>
        /\ verifyCalls[c].isValid => verifyCalls[c].outcome = VerifyOTPResult
        /\ (verifyCalls[c].afterOK /\ verifyCalls[c].correct)
              => verifyCalls[c].outcome = GenericOTPError

C2_Witness ==
    \E c \in Calls : Failed(c) /\ verifyCalls[c].afterOK /\ verifyCalls[c].correct

\* C3: once MAX_ATTEMPTS calls with a wrong code have completed for an
\* issued code, every further call for the pair fails, the correct code
\* included, until a new code is issued.
C3_LockedOutAfterMaxAttempts ==
    \A c \in Calls : (Settled(c) /\ verifyCalls[c].afterLockout) => ~Succeeded(c)

\* C4: every failed verifyEmailOTP call carries the same error (message,
\* status and code), whichever branch rejected it: missing row, attempt
\* limit, expiry, prior consumption, hash mismatch or a lost consume update.
C4_GenericFailure ==
    \A c, d \in Calls : (Failed(c) /\ Failed(d)) =>
        /\ verifyCalls[c].outcome = verifyCalls[d].outcome
        /\ verifyCalls[c].outcome = GenericOTPError

C4_Witness ==
    \E c, d \in Calls :
        /\ Failed(c) /\ Failed(d)
        /\ verifyCalls[c].cause = "mismatch"
        /\ verifyCalls[d].cause \in {"missing", "attempts", "expired", "consumed"}

----------------------------------------------------------------------------
(* Properties of AuthConfigService *)

(* the rows of _auth_configs, committed or inserted by an open transaction *)
AllConfigRows ==
    auth_configs \cup
        {cfgCalls[c].pending : c \in {x \in ConfigCalls : cfgCalls[x].inserted}}

ConfigSettled(c) == cfgCalls[c].pc = "done"

ConfigSucceeded(c) == ConfigSettled(c) /\ cfgCalls[c].outcome = ConfigReturned

\* C5: under every interleaving of getEmailConfig and updateEmailConfig
\* calls the _auth_configs table holds at most one row, and from the first
\* successful call on it holds exactly one.
C5_SingletonRow ==
    /\ Cardinality(auth_configs) <= 1
    /\ Cardinality({r.id : r \in AllConfigRows}) <= 1
    /\ cfgSucceeded => Cardinality(auth_configs) = 1

C5_Witness ==
    \E c, d \in ConfigCalls :
        /\ ConfigSucceeded(c) /\ cfgCalls[c].op = "get" /\ cfgCalls[c].sawEmpty
        /\ ConfigSucceeded(d) /\ cfgCalls[d].op = "update"
        /\ cfgCalls[d].input.fields # {}
        /\ Cardinality(auth_configs) = 1

\* C6: two getEmailConfig calls that both find _auth_configs empty both
\* return a config record, with the same id, and neither raises an error.
C6_ConcurrentFirstRead ==
    \A c, d \in ConfigCalls :
        (/\ ConfigSettled(c) /\ cfgCalls[c].op = "get" /\ cfgCalls[c].sawEmpty
         /\ ConfigSettled(d) /\ cfgCalls[d].op = "get" /\ cfgCalls[d].sawEmpty)
        => /\ cfgCalls[c].outcome = ConfigReturned
           /\ cfgCalls[d].outcome = ConfigReturned
           /\ cfgCalls[c].result.id = cfgCalls[d].result.id

----------------------------------------------------------------------------
(* Properties of the OAuth routes *)

CallbackRoutes == {"shared", "provider"}

CredentialCookieSet == response.cookie = "set"

\* C7: a callback (shared or /:provider/callback) whose state ticket is
\* missing, fails verification or has expired answers with the invalid-input
\* error, performs no exchange with the provider adapter and sets no
\* credential cookie.
C7_InvalidStateRejected ==
    (request.route \in CallbackRoutes
        /\ request.status \in {"missing", "invalid", "expired"})
    => /\ response.kind = "error"
       /\ response.error.code = "INVALID_INPUT"
       /\ ~response.exchanged
       /\ ~CredentialCookieSet

\* C8: a valid state ticket minted for one provider and presented to the
\* callback route of another provider is rejected: no exchange with that
\* provider and no credential cookie.
C8_ProviderMismatchRejected ==
    (/\ request.route = "provider"
     /\ request.status = "valid"
     /\ request.provider \in OAuthProviders
     /\ request.state.provider # request.provider)
    => (~response.exchanged /\ ~CredentialCookieSet)

\* C9: GET /:provider with a redirect_uri whose origin is not in the
\* configured allow-list fails with an invalid-input error, signs no state
\* ticket and does not ask the provider adapter for an authorization URL.
C9_DisallowedOriginRefused ==
    (/\ request.route = "begin"
     /\ request.provider \in OAuthProviders
     /\ URLParses(request.redirect_uri)
     /\ ParseAllowedOrigins(oauthEnv.OAUTH_ALLOWED_ORIGINS) # {}
     /\ OriginOf(request.redirect_uri)
            \notin ParseAllowedOrigins(oauthEnv.OAUTH_ALLOWED_ORIGINS))
    => /\ response.kind = "error"
       /\ response.error.code = "INVALID_INPUT"
       /\ ~response.signed
       /\ ~response.asked

\* C10: a callback that completed the exchange and obtained an access token
\* hands it over in an HTTP-only cookie only: the redirect URL carries neither
\* the access token nor user identity fields.
C10_TokenOnlyInCookie ==
    (/\ request.route \in CallbackRoutes
     /\ response.exchanged
     /\ request.exchange = "token"
     /\ response.kind = "redirect"
     /\ response.query.error = "")
    => /\ ~response.query.access_token
       /\ ~response.query.user
       /\ CredentialCookieSet
       /\ response.httpOnly

(* the texts the routers write themselves into an error redirect *)
OpaqueErrorIndicators == {"Authentication failed", "OAuth authentication failed"}

(* the provider reported a failure to the shared callback, which answered   *)
(* with a redirect                                                          *)
ProviderReportedFailure ==
    request.route = "shared" /\ ~request.success /\ response.kind = "redirect"

(* the exchange with the provider adapter was made and threw *)
ExchangeThrew ==
    /\ request.route \in CallbackRoutes
    /\ response.exchanged
    /\ request.exchange = "throws"
    /\ response.kind = "redirect"

\* C11: when the provider reports a failure or the exchange throws, the
\* error text of the redirect is one of the fixed indicators of the router:
\* it is neither the error text supplied by the provider nor the message of
\* the exception.
C11_OpaqueErrorRedirect ==
    (ProviderReportedFailure \/ ExchangeThrew)
    => response.query.error \in OpaqueErrorIndicators

(* OAUTH_ALLOWED_ORIGINS is unset or holds no origin *)
NoAllowList == oauthEnv.OAUTH_ALLOWED_ORIGINS \in {"unset", "empty"}

(* the request was refused: an error answer, or an error redirect *)
Refused ==
    \/ response.kind = "error"
    \/ response.kind = "redirect" /\ response.query.error # ""

\* C12: missing configuration never lets an OAuth operation proceed: with no
\* allow-list every GET /:provider is refused and signs no ticket, and with
\* no JWT secret GET /:provider and both callback routes refuse the request,
\* make no exchange and set no credential cookie.
C12_MissingConfigFailsClosed ==
    /\ (request.route = "begin" /\ NoAllowList)
          => (Refused /\ ~response.signed)
    /\ (request.route = "begin" /\ ~oauthEnv.JWT_SECRET)
          => (Refused /\ ~response.signed)
    /\ (request.route \in CallbackRoutes /\ ~oauthEnv.JWT_SECRET)
          => (Refused /\ ~response.exchanged /\ ~CredentialCookieSet)

----------------------------------------------------------------------------
(* Properties of the OAuth configuration routes *)

(* the request handled last asked for shared keys, with a body that passed  *)
(* validation, in a deployment that is not a cloud environment              *)
SharedKeyOutsideCloud ==
    /\ adminRequest.method \in {"POST", "PUT"}
    /\ adminRequest.valid
    /\ adminRequest.useSharedKey = "true"
    /\ ~IsCloudEnvironment(cloudEnv)

\* C13: a validated POST /configs or PUT /configs/:provider request with
\* useSharedKey = true in a deployment that is not a cloud environment is
\* answered with the OAuth configuration error, and handling it leaves the
\* stored configurations, the audit log and the broadcasts as they were.
C13_SharedKeyRejectedOutsideCloud ==
    [][SharedKeyOutsideCloud' =>
          /\ adminResponse' = SharedKeysError
          /\ UNCHANGED <<oauth_configs, audit_logs, broadcasts>>]_vars

C13_Witness ==
    /\ SharedKeyOutsideCloud
    /\ adminResponse = SharedKeysError
    /\ \E p \in OAuthProviders : oauth_configs[p].exists
    /\ audit_logs # <<>>

----------------------------------------------------------------------------
(* Properties of the rate limiters *)

CooldownRejected == cooldownCall.error = CooldownError /\ ~cooldownCall.next

CooldownAdmitted == cooldownCall.next /\ cooldownCall.error = NoOutcome

(* upper-case and lower-case forms of one letter *)
CasePairs == {<<"A", "a">>, <<"B", "b">>, <<"X", "x">>}

DiffersOnlyInCase(a, b) ==
    /\ a # b
    /\ Len(a) = Len(b)
    /\ \A i \in 1..Len(a) :
          a[i] = b[i] \/ <<a[i], b[i]>> \in CasePairs \/ <<b[i], a[i]>> \in CasePairs

SameIdentity(a, b) == a = b \/ DiffersOnlyInCase(a, b)

(* the call made last carried an email *)
CalledWithEmail == cooldownCall.cooldownMs # 0 /\ ~Falsy(cooldownCall.email)

(* time between the call made last and the last admitted request with text t *)
SinceAdmitted(t) == cooldownCall.at - cooldownCall.admitted[t].at

\* C14: for any configured cooldownMs, a perEmailCooldown request for an
\* email whose last admitted request is less than cooldownMs old is rejected
\* with the 429 error, whatever happened in between, runs of the sweep
\* included.
C14_RejectedWithinCooldown ==
    (/\ CalledWithEmail
     /\ \E t \in EmailTexts :
           /\ SameIdentity(t, cooldownCall.email.text)
           /\ cooldownCall.admitted[t].at # 0
           /\ SinceAdmitted(t) < cooldownCall.cooldownMs)
    => (CooldownRejected /\ cooldownCall.error.status = 429)

CooldownStep ==
    \E cooldownMs \in CooldownChoices, bodyEmail \in BodyEmails :
        PerEmailCooldown(cooldownMs, bodyEmail)

(* the last admitted request for the identity of the call made last is at   *)
(* least cooldownMs old                                                     *)
CooldownElapsed ==
    /\ CalledWithEmail
    /\ \E t \in EmailTexts :
          SameIdentity(t, cooldownCall.email.text) /\ cooldownCall.admitted[t].at # 0
    /\ \A t \in EmailTexts :
          (SameIdentity(t, cooldownCall.email.text) /\ cooldownCall.admitted[t].at # 0)
             => SinceAdmitted(t) >= cooldownCall.cooldownMs

\* C16: once at least cooldownMs has elapsed since the last admitted request
\* for an email, the next perEmailCooldown request for it is admitted: next()
\* is called without an error and the entry of the email holds the time of
\* this request.
C16_AdmittedAfterCooldown ==
    [][(CooldownStep /\ CooldownElapsed')
          => /\ CooldownAdmitted'
             /\ MapGet(emailCooldowns', ToLowerCase(cooldownCall'.email.text)) = clock]_vars

C16_Witness ==
    /\ CooldownElapsed
    /\ CooldownAdmitted
    /\ cooldownCall.lastRequest # 0
    /\ cooldownCall.at - cooldownCall.lastRequest = cooldownCall.cooldownMs
    /\ MapGet(emailCooldowns, ToLowerCase(cooldownCall.email.text)) = cooldownCall.at

(* the cooldown left at the call made last, in milliseconds *)
RemainingMs == cooldownCall.cooldownMs - (cooldownCall.at - cooldownCall.lastRequest)

(* s is n / 1000 rounded up to a whole number: the least s with 1000 s >= n *)
RoundedUpSeconds(s, n) == s * 1000 >= n /\ (s - 1) * 1000 < n

\* C17: the wait time of a rejected perEmailCooldown request is the remaining
\* cooldown rounded up to whole seconds, ceil((cooldownMs - elapsed) / 1000):
\* at least 1 and at most ceil(cooldownMs / 1000).
C17_RemainingSecondsRoundedUp ==
    CooldownRejected =>
        /\ RoundedUpSeconds(cooldownCall.remainingSec, RemainingMs)
        /\ cooldownCall.remainingSec >= 1
        /\ \A s \in 1..(cooldownCall.cooldownMs \div 1000 + 1) :
              RoundedUpSeconds(s, cooldownCall.cooldownMs)
                 => cooldownCall.remainingSec <= s

C17_Witness ==
    /\ CooldownRejected
    /\ cooldownCall.cooldownMs = DefaultCooldownMs
    /\ RemainingMs = 1
    /\ cooldownCall.remainingSec = 1

(* a middleware step for a request whose body has no email: the field is   *)
(* absent, or holds the empty text                                          *)
NoEmailStep ==
    \E cooldownMs \in CooldownChoices, bodyEmail \in {NoEmail, BodyEmail(<<>>)} :
        PerEmailCooldown(cooldownMs, bodyEmail)

\* C18: a perEmailCooldown request whose body has no email is passed on,
\* next() being called with no error, and the cooldown map stays as it was.
C18_NoEmailPassesThrough ==
    [][NoEmailStep => (CooldownAdmitted' /\ UNCHANGED emailCooldowns)]_vars

C18_Witness ==
    /\ cooldownCall.cooldownMs # 0
    /\ ~cooldownCall.email.present
    /\ CooldownAdmitted
    /\ emailCooldowns # << >>

(* the keys the map can hold *)
CooldownKeys == {ToLowerCase(t) : t \in EmailTexts}

(* what a request for key k would meet at time t under cooldownMs *)
WouldReject(map, k, t, cooldownMs) ==
    MapGet(map, k) # 0 /\ t - MapGet(map, k) < cooldownMs

\* C19: cooldown entries are independent per identity: a perEmailCooldown
\* request for one normalized email, admitted or rejected, changes neither
\* the entry of any other email nor the decision a request for that other
\* email would get.  (A step that neither moves the clock nor runs the sweep
\* is a step of the middleware.)
C19_IndependentIdentities ==
    [][(clock' = clock /\ nextSweep' = nextSweep) =>
          \A k \in CooldownKeys \ {ToLowerCase(cooldownCall'.email.text)} :
              /\ (k \in DOMAIN emailCooldowns') = (k \in DOMAIN emailCooldowns)
              /\ MapGet(emailCooldowns', k) = MapGet(emailCooldowns, k)
              /\ \A other \in CooldownChoices :
                    WouldReject(emailCooldowns', k, clock', other)
                       = WouldReject(emailCooldowns, k, clock, other)]_vars

C19_Witness ==
    /\ CooldownAdmitted
    /\ CalledWithEmail
    /\ \E k \in DOMAIN emailCooldowns :
          /\ k # ToLowerCase(cooldownCall.email.text)
          /\ emailCooldowns[k] < cooldownCall.at
          /\ WouldReject(emailCooldowns, k, clock, DefaultCooldownMs)

----------------------------------------------------------------------------
(* Properties of the issuance limiter chain *)

(* the requests of ip that arrived in its current window and whose response *)
(* has not finished                                                         *)
Pending(ip) ==
    {slot \in Slots : inflight[slot].ip = ip /\ inflight[slot].window = resetTime[ip]}

ThrottleRejected == throttleCall.error = TooManyRequestsError

VerifyRejected == verifyCall.error # NoOutcome

RequestedAMomentEarlier ==
    /\ verifyCall.lastRequest >= StartClock
    /\ verifyCall.at - verifyCall.lastRequest < DefaultCooldownMs

C21_VerifyThrottledPerIPOnly ==
    verifyCall # NoVerifyCall =>
        /\ VerifyRejected <=> verifyCall.hits >= verifyMax
        /\ VerifyRejected => verifyCall.error = VerifyTooManyError

C21_Witness ==
    /\ verifyCall # NoVerifyCall
    /\ RequestedAMomentEarlier
    /\ ~VerifyRejected

(* C22: an updateEmailConfig call that supplies a passwordMinLength outside *)
(* [4, 128] ends with a client-facing validation error (a 4xx status, not   *)
(* the internal error) and returns no row; a call that supplies a length    *)
(* in the range and returns has persisted and returns that length           *)
SuppliesMinLength(call) ==
    call.op = "update" /\ call.pc = "done" /\ "passwordMinLength" \in call.input.fields

IsValidationError(outcome) ==
    outcome.kind = "error" /\ outcome.status >= 400 /\ outcome.status < 500

C22_OutOfRangeIsValidationError ==
    \A c \in ConfigCalls :
        LET call == cfgCalls[c]
        IN  SuppliesMinLength(call) =>
              IF CheckPasswordMinLength(call.input.passwordMinLength)
              THEN call.outcome = ConfigReturned =>
                     call.result.passwordMinLength = call.input.passwordMinLength
              ELSE IsValidationError(call.outcome) /\ call.result = NoConfig

(* C23: the step of updateEmailConfig that writes leaves every field that   *)
(* its input does not supply as it was in every stored row and gives every  *)
(* supplied field the input's value; with no field supplied it changes no   *)
(* stored row, and the call then returns the stored policy                  *)
WriteStep(c) == cfgCalls[c].pc = "write" /\ cfgCalls'[c].pc # "write"

ReturnAfterNoUpdates(c) == cfgCalls[c].pc = "get" /\ cfgCalls'[c].pc = "done"

FieldsKept(c) ==
    LET input == cfgCalls[c].input
    IN  \A r \in auth_configs : \A q \in auth_configs' :
          q.id = r.id =>
            \A f \in ConfigFields :
                IF f \in input.fields
                THEN q[f] = r[f] \/ q[f] = input[f]
                ELSE q[f] = r[f]

SuppliedFieldsWritten(c) ==
    LET input == cfgCalls[c].input
    IN  cfgCalls'[c].outcome = ConfigReturned =>
          /\ cfgCalls'[c].result \in auth_configs'
          /\ \A q \in auth_configs' : \A f \in input.fields : q[f] = input[f]

C23_OnlySuppliedFieldsChange ==
    [][\A c \in ConfigCalls :
          /\ WriteStep(c) => FieldsKept(c) /\ SuppliedFieldsWritten(c)
          /\ WriteStep(c) /\ cfgCalls[c].input.fields = {} =>
                \A r \in auth_configs : r \in auth_configs'
          /\ ReturnAfterNoUpdates(c) =>
                cfgCalls'[c].result \in auth_configs /\ auth_configs' = auth_configs]_vars

C23_Witness ==
    \E c \in ConfigCalls :
        /\ cfgCalls[c].op = "update" /\ cfgCalls[c].pc = "done"
        /\ cfgCalls[c].input.fields = {"passwordMinLength"}
        /\ cfgCalls[c].outcome = ConfigReturned
        /\ cfgCalls[c].result.requireEmailVerification
        /\ cfgCalls[c].result \in auth_configs

(* C24: the message of getPasswordRequirementsMessage is the fixed opening  *)
(* followed by the rules separated by ", ": the minimum-length rule first,  *)
(* always, and then each of the number, lowercase, uppercase and special    *)
(* character rules exactly when its flag is set, in that order              *)
FlagRules ==
    <<[flag |-> "requireNumber", text |-> "at least one number"],
      [flag |-> "requireLowercase", text |-> "at least one lowercase letter"],
      [flag |-> "requireUppercase", text |-> "at least one uppercase letter"],
      [flag |-> "requireSpecialChar", text |-> "at least one special character"]>>

(* the rules of a message: the pieces at the even positions *)
RulesListed(message) == [i \in 1..(Len(message) \div 2) |-> message[2 * i]]

(* the position of a flag rule in the list, 0 when it is not listed *)
PositionOf(list, text) ==
    IF \E i \in DOMAIN list : list[i] = text
    THEN CHOOSE i \in DOMAIN list : list[i] = text
    ELSE 0

C24_MessageListsEnabledRules ==
    pwdMessage # NotCalled =>
        LET listed == RulesListed(pwdMessage)
            flagsSet == {k \in DOMAIN FlagRules : pwdConfig[FlagRules[k].flag]}
        IN  /\ Len(pwdMessage) = 2 * Len(listed)
            /\ pwdMessage[1] = "Password must contain "
            /\ \A i \in 2..Len(listed) : pwdMessage[2 * i - 1] = ", "
            /\ listed[1] = "at least " \o ToString(pwdConfig.passwordMinLength)
                                      \o " characters long"
            /\ Len(listed) = 1 + Cardinality(flagsSet)
            /\ \A k \in DOMAIN FlagRules :
                  (PositionOf(listed, FlagRules[k].text) > 1) <=> (k \in flagsSet)
            /\ \A k, m \in flagsSet :
                  k < m => PositionOf(listed, FlagRules[k].text)
                             < PositionOf(listed, FlagRules[m].text)

C24_Witness ==
    /\ pwdMessage # NotCalled
    /\ pwdConfig.requireNumber /\ ~pwdConfig.requireLowercase
    /\ pwdConfig.requireUppercase /\ ~pwdConfig.requireSpecialChar
    /\ Len(pwdMessage) = 6

(* C25: an issuance for a pair that has a row leaves one row for the pair,  *)
(* with the hash of the new code, the new expiry, attempts_count 0 and      *)
(* consumed_at NULL; a verification made after it, before the new expiry    *)
(* and below the attempt limit, succeeds with the new code and fails with   *)
(* another one, the replaced code included, whether the replaced row was    *)
(* consumed, locked out or neither                                          *)
ThePair == CHOOSE p \in Pairs : TRUE

IssueStep == now' = now /\ verifyCalls' = verifyCalls

VerifySettles(c) == verifyCalls'[c] # verifyCalls[c] /\ verifyCalls'[c].pc = "done"

FreshRow(row) ==
    /\ row.attempts_count = 0
    /\ row.consumed_at = NULL
    /\ row.expires_at = now + OTP_EXPIRY_MINUTES

Reissued == reissued[ThePair].over # "none"

C25_ReissueResetsRow ==
    [][/\ (IssueStep /\ email_otps # {}) =>
            /\ Cardinality(email_otps') = 1
            /\ \A row \in email_otps' :
                  /\ FreshRow(row)
                  /\ row.code_hash # NoHash
       /\ \A c \in Calls :
            (/\ VerifySettles(c)
             /\ Reissued
             /\ okReturned[ThePair] = 0
             /\ wrongDone[ThePair] < MAX_ATTEMPTS
             /\ now <= reissued[ThePair].at + OTP_EXPIRY_MINUTES)
            => IF verifyCalls'[c].correct
               THEN verifyCalls'[c].outcome = VerifyOTPResult
               ELSE verifyCalls'[c].outcome = GenericOTPError]_vars

C25_Witness ==
    /\ reissued[ThePair].over = "lockedOut"
    /\ okReturned[ThePair] = 1
    /\ wrongDone[ThePair] = 1
    /\ \E c \in Calls : Succeeded(c)

(* C26: in every reachable state, however createEmailOTP and verifyEmailOTP *)
(* calls interleave, _email_otps holds at most one row per (email,          *)
(* purpose), and the row it holds is the one written last                   *)
InFlight(c) == verifyCalls[c].pc \in {"increment", "consume", "caller"}

C26_OneRowPerPair ==
    \A e \in Emails, p \in EmailOTPPurpose :
        /\ Cardinality(Rows(e, p)) <= 1
        /\ \A r \in Rows(e, p) : r.expires_at <= now + OTP_EXPIRY_MINUTES

C26_Witness ==
    /\ Cardinality(email_otps) = 1
    /\ \A r \in email_otps : r.attempts_count = 0 /\ r.expires_at = now + OTP_EXPIRY_MINUTES
    /\ now > 0
    /\ \E c, d \in Calls :
          /\ c # d
          /\ InFlight(d) /\ verifyCalls[d].isValid
          /\ Settled(c) /\ verifyCalls[c].cause = "mismatch"

(* C27: the row of an issued code expires 15 minutes after the issuance,    *)
(* and no verification begun more than 15 minutes after the issuance gets   *)
(* past the validity check with the correct code                            *)
ExpiresAfterFifteenMinutes ==
    \A row \in email_otps : row.expires_at = reissued[ThePair].at + 15

AcceptedStep(c) ==
    verifyCalls[c].pc \in {"idle", "done"} /\ verifyCalls'[c].pc = "consume"

C27_ExpiresAfterFifteenMinutes ==
    /\ []ExpiresAfterFifteenMinutes
    /\ [][\A c \in Calls :
            AcceptedStep(c) => now <= reissued[ThePair].at + 15]_vars

(* C28: a verifyEmailOTP call that begins when the clock is past the        *)
(* expires_at of the row of its pair ends in the generic error, whether its *)
(* code matches or not, and leaves the table as it is: the row stays, not   *)
(* consumed                                                                 *)
BeginsVerify(c) ==
    verifyCalls[c].pc \in {"idle", "done"} /\ verifyCalls'[c] # verifyCalls[c]

RowExpired == \E row \in email_otps : now > row.expires_at

C28_ExpiryCheckedAtVerification ==
    [][\A c \in Calls :
          (BeginsVerify(c) /\ RowExpired) =>
              /\ verifyCalls'[c].outcome = GenericOTPError
              /\ verifyCalls'[c].pc \in {"done", "caller"}
              /\ verifyCalls'[c].pending = NoRow
              /\ email_otps' = email_otps]_vars

C28_Witness ==
    \E c \in Calls :
        /\ Failed(c) /\ verifyCalls[c].cause = "expired" /\ verifyCalls[c].correct
        /\ \E row \in email_otps :
              row.consumed_at = NULL /\ row.attempts_count = 0 /\ now > row.expires_at

(* C29: a response of a callback route that redirects with an error         *)
(* indicator clears the access_token cookie                                 *)
CallbackErrorRedirect ==
    /\ request.route \in {"shared", "provider"}
    /\ response.kind = "redirect"
    /\ response.query.error # ""

C29_ErrorRedirectClearsCookie ==
    CallbackErrorRedirect => response.cookie = "cleared"

(* C30: a state ticket that has completed a flow does not complete a        *)
(* second one: no callback request that presents a used ticket is answered  *)
(* with the redirect of a completed flow                                    *)
C30_TicketNotAcceptedTwice == ~ticketUse.again

----------------------------------------------------------------------------
(* Properties of the long token *)

LinkSucceeded(c) == linkCalls[c].pc = "done" /\ linkCalls[c].outcome = VerifyOTPResult

LinkFailed(c) == linkCalls[c].pc = "done" /\ linkCalls[c].outcome.kind = "error"

(* C31: a long token is verified from its purpose and the token alone, the  *)
(* identity coming from the row its hash finds; of the verifications of one *)
(* issued token, one after the other or concurrent, at most one succeeds,   *)
(* every failed one ends in the generic error, and none changes an          *)
(* attempt counter                                                          *)
C31_LongTokenSingleUse ==
    /\ \A t \in Tokens : linkOk[t] <= 1
    /\ \A r \in link_otps : r.attempts_count = 0
    /\ \A c \in Calls :
          /\ LinkSucceeded(c) => linkCalls[c].identity \in Emails
          /\ LinkFailed(c) => linkCalls[c].outcome = GenericOTPError

C31_Witness ==
    \E c, d \in Calls :
        /\ LinkSucceeded(c) /\ LinkFailed(d)
        /\ linkCalls[c].token = linkCalls[d].token
        /\ linkCalls[d].found # NoLinkRow
        /\ linkOk[linkCalls[c].token] = 1

(* C32: a run of the sweep removes the cooldown entries whose timestamp is  *)
(* more than five minutes old, those and no other, and leaves the timestamp *)
(* of every other entry as it was                                           *)
SweepStep == nextSweep' # nextSweep

OlderThanFiveMinutes(k) == clock - emailCooldowns[k] > 300000

C32_SweepRemovesOldEntries ==
    [][SweepStep =>
          /\ DOMAIN emailCooldowns' \subseteq DOMAIN emailCooldowns
          /\ \A k \in DOMAIN emailCooldowns :
                IF OlderThanFiveMinutes(k)
                THEN k \notin DOMAIN emailCooldowns'
                ELSE k \in DOMAIN emailCooldowns'
                     /\ emailCooldowns'[k] = emailCooldowns[k]]_vars

C32_Witness ==
    /\ nextSweep > StartClock + fiveMinutes
    /\ \E t \in EmailTexts :
          admittedAt[t].swept /\ ToLowerCase(t) \notin DOMAIN emailCooldowns
    /\ \E k \in DOMAIN emailCooldowns : clock - emailCooldowns[k] = fiveMinutes

(* C33: every verifyEmailOTP call that has read its row eventually returns  *)
(* or throws, also a call with a wrong code on an external client whose     *)
(* transaction holds the row lock while the increment runs on a second      *)
(* connection                                                               *)
Running(c) == verifyCalls[c].pc \in {"increment", "consume"}

Returned(c) == verifyCalls[c].pc \in {"caller", "done"}

C33_VerifyCompletes == \A c \in Calls : Running(c) ~> Returned(c)

(* C34: however concurrent verifyEmailOTP calls for one (email, purpose)    *)
(* interleave, attempts_count never exceeds MAX_ATTEMPTS, and a call        *)
(* compares its candidate with the stored hash only while attempts_count    *)
(* is below MAX_ATTEMPTS                                                    *)
Compares(c) ==
    /\ verifyCalls[c].pc \in {"idle", "done"}
    /\ verifyCalls'[c].pc \in {"increment", "consume"}

C34_AtMostFiveGuesses ==
    [][/\ \A r \in email_otps' : r.attempts_count <= 5
       /\ \A c \in Calls :
             Compares(c) =>
                \A r \in Rows(verifyCalls'[c].email, verifyCalls'[c].purpose) :
                    r.attempts_count < 5]_vars

(* C35: a verifyEmailOTP call rejected because the row is missing, expired, *)
(* consumed or at the attempt limit writes nothing: the table is the same   *)
(* after its step and it leaves no write on the caller's transaction.  A    *)
(* step of a verification changes attempts_count only when it is the        *)
(* increment after a hash mismatch, and then the row the call's connection  *)
(* sees differs from the one before by attempts_count + 1 and nothing else. *)
RejectedAsInvalid(c) ==
    /\ verifyCalls[c].pc \in {"idle", "done", "consume"}
    /\ verifyCalls'[c].pc \in {"caller", "done"}
    /\ verifyCalls'[c] # verifyCalls[c]
    /\ verifyCalls'[c].outcome.kind = "error"
    /\ verifyCalls'[c].cause # "mismatch"

MismatchStep(c) ==
    verifyCalls[c].pc = "increment" /\ verifyCalls'[c].pc # "increment"

VerificationStep == \E c \in Calls : verifyCalls'[c].pc # verifyCalls[c].pc

AttemptsKept ==
    \A after \in email_otps' :
        \E before \in email_otps :
            /\ before.email = after.email
            /\ before.purpose = after.purpose
            /\ before.attempts_count = after.attempts_count

C35_OnlyMismatchCountsAttempt ==
    [][/\ \A c \in Calls :
             /\ RejectedAsInvalid(c) =>
                    email_otps' = email_otps /\ verifyCalls'[c].pending = NoRow
             /\ MismatchStep(c) =>
                    CurrentRow(c)' =
                        [CurrentRow(c) EXCEPT !.attempts_count = @ + 1]
       /\ (VerificationStep /\ ~\E c \in Calls : MismatchStep(c)) =>
              AttemptsKept]_vars

C35_Witness ==
    \E c \in Calls :
        /\ Failed(c)
        /\ verifyCalls[c].cause = "attempts"
        /\ \E r \in Rows(verifyCalls[c].email, verifyCalls[c].purpose) :
              r.attempts_count = MAX_ATTEMPTS /\ r.consumed_at = NULL

(* C36: a verifyEmailOTP call that manages its own transaction has ended    *)
(* that transaction when it settles, whichever way it returns or throws:    *)
(* no row lock of its transaction is left on the table                      *)
OwnTransaction(c) == ~verifyCalls[c].ext

StoredTimestamp == MapGet(emailCooldowns, ToLowerCase(cooldownCall.email.text))

C37_RejectionKeepsTimestamp ==
    [][CooldownStep =>
          /\ CooldownRejected' =>
                /\ emailCooldowns' = emailCooldowns
                /\ StoredTimestamp' = cooldownCall'.lastRequest
          /\ (CalledWithEmail'
               /\ clock - MapGet(emailCooldowns, ToLowerCase(cooldownCall'.email.text))
                     >= cooldownCall'.cooldownMs)
                => CooldownAdmitted']_vars

C37_Witness ==
    /\ CooldownRejected
    /\ StoredTimestamp = cooldownCall.lastRequest
    /\ cooldownCall.at > cooldownCall.lastRequest
    /\ clock = cooldownCall.at

(* C38: in the chain of the issuance route the per-IP limiter runs first:   *)
(* a request it rejects does not reach perEmailCooldown, so the step writes *)
(* no cooldown timestamp and leaves the record of the last cooldown call    *)
ArrivesAt(slot) == inflight[slot] = NoInFlight /\ inflight'[slot] # NoInFlight

C38_LimitedRequestRecordsNoCooldown ==
    [][\A slot \in Slots :
          (ArrivesAt(slot) /\ inflight'[slot].stage = "limited") =>
             /\ throttleCall'.error = TooManyRequestsError
             /\ emailCooldowns' = emailCooldowns
             /\ admittedAt' = admittedAt
             /\ cooldownCall' = cooldownCall]_vars

C38_Witness ==
    /\ ThrottleRejected
    /\ ~Falsy(throttleCall.email)
    /\ throttleCall.at = clock
    /\ MapGet(emailCooldowns, ToLowerCase(throttleCall.email.text)) = 0
    /\ \E slot \in Slots : inflight[slot].stage = "limited"

(* C39: a redirect answered by a callback route goes either to the origin   *)
(* carried by the state ticket of the request, a ticket whose signature     *)
(* verifies and which has not expired, minted by beginFlow for an origin on *)
(* the allow-list, or to the default frontend origin                        *)
TargetFromValidTicket ==
    /\ request.status = "valid"
    /\ request.state \in tickets
    /\ response.target = request.state.target
    /\ response.target \in ParseAllowedOrigins(oauthEnv.OAUTH_ALLOWED_ORIGINS)

C39_RedirectTargetsTrusted ==
    (request.route \in {"shared", "provider"} /\ response.kind = "redirect")
        => (TargetFromValidTicket \/ response.target = DefaultFrontendOrigin)

(* C40: a callback response that redirects with success=true has set the   *)
(* access_token cookie                                                      *)
RedirectsWithSuccess ==
    /\ request.route \in {"shared", "provider"}
    /\ response.kind = "redirect"
    /\ response.query.success

C40_SuccessCarriesCookie == RedirectsWithSuccess => response.cookie = "set"

====
